---------------------------- MODULE Spec2Model ----------------------------
(***************************************************************************)
(* Model of tools/cycling_stats.py: the CyclingStats engine.               *)
(*                                                                         *)
(* A document is a sequence of element records in document order; an       *)
(* element is its index in the sequence, 0 is "no element" (Python None).  *)
(* An element records its parent and its extent, the index of its last     *)
(* descendant (its own index when it has none).                            *)
(* Text and attribute values are strings; None is the absent value.        *)
(* Timestamps are whole hours since 2024-01-01T00:00.                      *)
(***************************************************************************)
EXTENDS Integers, Sequences, FiniteSets, TLC

VARIABLES root, bikes, bookings, guides, paths, destinations, clients,
          maintenances, tour_packages, trip_groups,
          package_path_cache, package_guide_cache, path_region_cache,
          guide_langs_cache, now, last

sections == <<bikes, bookings, guides, paths, destinations, clients,
              maintenances, tour_packages, trip_groups>>
caches == <<package_path_cache, package_guide_cache, path_region_cache,
            guide_langs_cache>>
vars == <<root, sections, caches, now, last>>

---------------------------------------------------------------------------
(* Python values *)

None == "<None>"
NoElement == 0

\* Python truthiness of an optional string: None and '' are falsy.
Truthy(s) == s # None /\ s # ""

\* a or b on optional strings
Or(a, b) == IF Truthy(a) THEN a ELSE b

Min(a, b) == IF a < b THEN a ELSE b
Max(a, b) == IF a > b THEN a ELSE b

\* dict[k] = v
Put(d, k, v) == [x \in (DOMAIN d) \cup {k} |-> IF x = k THEN v ELSE d[x]]
\* dict.get(k, default)
Get(d, k, default) == IF k \in DOMAIN d THEN d[k] ELSE default
EmptyDict == [x \in {} |-> None]

---------------------------------------------------------------------------
(* Elements *)

\* element.get(name): the attribute, or None
Attr(doc, el, name) == Get(doc[el].attrib, name, None)

\* One ElementPath step: a tag, optionally with the predicate [@id='val'].
Tag(name) == [tag |-> name, pred |-> FALSE, val |-> None]
TagId(name, id) == [tag |-> name, pred |-> TRUE, val |-> id]

StepMatches(doc, i, step, ns) ==
    /\ doc[i].tag = step.tag
    /\ doc[i].ns = ns
    /\ step.pred => Attr(doc, i, "id") = step.val

\* element.findall of 'ct:step' (ns), 'step', './/ct:step', './/step': the
\* matching children (or descendants, when deep). The descendants of el are
\* the elements el+1 .. extent of el.
Matching(doc, el, step, ns, deep) ==
    {i \in (el + 1)..doc[el].extent :
        /\ StepMatches(doc, i, step, ns)
        /\ (deep \/ doc[i].parent = el)}

\* a set of elements in document order
InOrder(els) ==
    [k \in 1..Cardinality(els) |->
        CHOOSE i \in els : Cardinality({j \in els : j < i}) = k - 1]

First(els) == CHOOSE i \in els : \A j \in els : i <= j

findall(doc, el, step, ns, deep) == InOrder(Matching(doc, el, step, ns, deep))

\* the first of the matches, or None
FirstOrNone(r) == IF r = {} THEN NoElement ELSE First(r)

\* element.find: the first match or None
find(doc, el, step, ns, deep) == FirstOrNone(Matching(doc, el, step, ns, deep))

\* the text of an element ('' when it has none), None for no element
TextOrNone(doc, r) ==
    IF r = NoElement THEN None
    ELSE IF doc[r].text = None THEN "" ELSE doc[r].text

\* element.findtext: the text of the first match, None when nothing matches
findtext(doc, el, step, ns, deep) == TextOrNone(doc, find(doc, el, step, ns, deep))

---------------------------------------------------------------------------
(* Tolerant Locator *)

\* _find_text with '' as the default of its last findtext
_find_text_EmptyDefault(doc, element, path) ==
    IF element = NoElement THEN None
    ELSE LET r1 == findtext(doc, element, Tag(path), TRUE, FALSE)
             r2 == findtext(doc, element, Tag(path), TRUE, TRUE)
             r3 == findtext(doc, element, Tag(path), FALSE, FALSE)
             r4 == findtext(doc, element, Tag(path), FALSE, TRUE)
         IN IF r1 # None THEN r1
            ELSE IF r2 # None THEN r2
            ELSE IF r3 # None THEN r3
            ELSE IF r4 # None THEN r4
            ELSE ""

\* One level of a lookup: its result r unless that is nothing (None, or the
\* empty list), and then what the next level gives.
OrElse(r, nothing, next) == IF r # nothing THEN r ELSE next

_find_text(doc, element, path) ==
    IF element = NoElement THEN None
    ELSE OrElse(findtext(doc, element, Tag(path), TRUE, FALSE), None,
         OrElse(findtext(doc, element, Tag(path), TRUE, TRUE), None,
         OrElse(findtext(doc, element, Tag(path), FALSE, FALSE), None,
                findtext(doc, element, Tag(path), FALSE, TRUE))))

_find(doc, element, step) ==
    IF element = NoElement THEN NoElement
    ELSE OrElse(find(doc, element, step, TRUE, FALSE), NoElement,
         OrElse(find(doc, element, step, FALSE, FALSE), NoElement,
                find(doc, element, step, FALSE, TRUE)))

_findall(doc, element, path) ==
    IF element = NoElement THEN <<>>
    ELSE OrElse(findall(doc, element, Tag(path), TRUE, FALSE), <<>>,
         OrElse(findall(doc, element, Tag(path), TRUE, TRUE), <<>>,
         OrElse(findall(doc, element, Tag(path), FALSE, FALSE), <<>>,
                findall(doc, element, Tag(path), FALSE, TRUE))))

\* __init__.find_section: the root element is element 1
find_section(doc, name) ==
    OrElse(find(doc, 1, Tag(name), TRUE, FALSE), NoElement,
    OrElse(find(doc, 1, Tag(name), FALSE, FALSE), NoElement,
           find(doc, 1, Tag(name), FALSE, TRUE)))

---------------------------------------------------------------------------
(* datetime, float and Decimal *)

IsLeap(y) == (y % 4 = 0 /\ y % 100 # 0) \/ y % 400 = 0

DaysInMonth(y, m) ==
    IF m = 2 THEN (IF IsLeap(y) THEN 29 ELSE 28)
    ELSE IF m \in {4, 6, 9, 11} THEN 30 ELSE 31

RECURSIVE DaysBeforeMonth(_, _)
DaysBeforeMonth(y, m) ==
    IF m = 1 THEN 0 ELSE DaysBeforeMonth(y, m - 1) + DaysInMonth(y, m - 1)

RECURSIVE DaysBeforeYear(_)
DaysBeforeYear(y) ==
    IF y <= 2024 THEN 0
    ELSE DaysBeforeYear(y - 1) + (IF IsLeap(y - 1) THEN 366 ELSE 365)

\* datetime(year, month, day, hour), in hours since 2024-01-01T00:00
datetime(y, m, d, h) == 24 * (DaysBeforeYear(y) + DaysBeforeMonth(y, m) + d - 1) + h

\* timedelta(days=n), in hours
timedelta(days) == 24 * days

\* The ISO-8601 texts of the documents and the fields they are parsed to:
\* <<year, month, day, hour>>. datetime.fromisoformat raises ValueError on
\* every other text.
IsoTable ==
    ("2024-02-10T08:00" :> <<2024, 2, 10, 8>>) @@
    ("2024-02-29T22:00" :> <<2024, 2, 29, 22>>) @@
    ("2024-03-01T00:00" :> <<2024, 3, 1, 0>>) @@
    ("2024-03-01T02:00" :> <<2024, 3, 1, 2>>) @@
    ("2024-03-10" :> <<2024, 3, 10, 0>>) @@
    ("2024-03-10T10:00" :> <<2024, 3, 10, 10>>) @@
    ("2024-03-10T14:00" :> <<2024, 3, 10, 14>>) @@
    ("2024-03-20T09:00" :> <<2024, 3, 20, 9>>) @@
    ("2024-03-31T22:00" :> <<2024, 3, 31, 22>>) @@
    ("2024-04-01T00:00" :> <<2024, 4, 1, 0>>) @@
    ("2024-04-01T03:00" :> <<2024, 4, 1, 3>>) @@
    ("2024-04-05T12:00" :> <<2024, 4, 5, 12>>) @@
    ("2024-12-31T20:00" :> <<2024, 12, 31, 20>>) @@
    ("2025-01-01T00:00" :> <<2025, 1, 1, 0>>)

IsIso(s) == s \in DOMAIN IsoTable
FromFields(f) == datetime(f[1], f[2], f[3], f[4])
fromisoformat(s) == FromFields(IsoTable[s])

\* The numeric texts of the documents. float() and Decimal() raise on every
\* other text (ValueError, decimal.InvalidOperation) and on None (TypeError).
NumTable ==
    ("0" :> 0) @@ ("1" :> 1) @@ ("2" :> 2) @@ ("3" :> 3) @@ ("4" :> 4) @@
    ("5" :> 5) @@ ("6" :> 6) @@ ("24" :> 24) @@ ("30" :> 30) @@ ("50" :> 50) @@
    ("100" :> 100) @@ ("720" :> 720) @@ ("800" :> 800) @@ ("-5" :> (0 - 5)) @@
    ("-800" :> (0 - 800))

IsNum(s) == s \in DOMAIN NumTable
float(s) == NumTable[s]
Decimal(s) == NumTable[s]

---------------------------------------------------------------------------
(* Building documents *)

RECURSIVE Graft(_, _)
Graft(kids, offset) ==
    IF kids = <<>> THEN <<>>
    ELSE LET k == Head(kids)
             moved == [j \in 1..Len(k) |->
                         [k[j] EXCEPT !.parent = IF @ = NoElement THEN 1 ELSE @ + offset,
                                      !.extent = @ + offset]]
         IN moved \o Graft(Tail(kids), offset + Len(k))

\* an element followed by its descendants
Element(tag, attrib, text, below) ==
    <<[parent |-> NoElement, extent |-> 1 + Len(below), tag |-> tag, ns |-> FALSE,
       text |-> text, attrib |-> attrib]>> \o below

\* <tag attrib...>text kids...</tag>, in document order
E(tag, attrib, text, kids) == Element(tag, attrib, text, Graft(kids, 1))

NoAttr == EmptyDict
T(tag, text) == E(tag, NoAttr, text, <<>>)

\* xmlns="http://example.com/cycling" on the root: every element is in it
WithNs(doc, ns) == [i \in 1..Len(doc) |-> [doc[i] EXCEPT !.ns = ns]]

---------------------------------------------------------------------------
(* Floating-point quantities that are quotients are kept exact, as reduced *)
(* fractions [n, d] with d > 0.                                            *)

Abs(x) == IF x < 0 THEN 0 - x ELSE x

RECURSIVE Gcd(_, _)
Gcd(a, b) == IF b = 0 THEN a ELSE Gcd(b, a % b)

\* n / d reduced by g, their greatest common divisor, the sign on n
Reduced(n, d, g) ==
    IF d < 0 THEN [n |-> (0 - n) \div g, d |-> (0 - d) \div g]
    ELSE [n |-> n \div g, d |-> d \div g]

\* n / d for d # 0
Frac(n, d) == Reduced(n, d, Gcd(Abs(n), Abs(d)))

Zero == Frac(0, 1)
FracLeq(x, y) == x.n * y.d <= y.n * x.d
FracMin(x, y) == IF FracLeq(x, y) THEN x ELSE y

---------------------------------------------------------------------------
(* Reference Cache Builder *)

\* cache[k] = v when k and v are truthy
PutRef(cache, k, v) == IF Truthy(k) /\ Truthy(v) THEN Put(cache, k, v) ELSE cache

\* cache[k] = s when k is truthy and the set s is not empty
PutSet(cache, k, s) == IF Truthy(k) /\ s # {} THEN Put(cache, k, s) ELSE cache

RECURSIVE CachePackages(_, _, _, _)
CachePackages(doc, pkgs, field, cache) ==
    IF pkgs = <<>> THEN cache
    ELSE CachePackages(doc, Tail(pkgs), field,
            PutRef(cache, Attr(doc, Head(pkgs), "id"), _find_text(doc, Head(pkgs), field)))

\* the region of the destination dest_id, as a set of 0 or 1
RegionOf(doc, dests, dest_id) ==
    IF ~Truthy(dest_id) THEN {}
    ELSE {region \in {_find_text(doc, _find(doc, dests, TagId("destination", dest_id)),
                                 "region")} : Truthy(region)}

\* the region a path's startRef or endRef resolves to, as a set of 0 or 1
RefRegion(doc, dests, path, ref) == RegionOf(doc, dests, _find_text(doc, path, ref))

RECURSIVE CachePathRegions(_, _, _, _)
CachePathRegions(doc, dests, ps, cache) ==
    IF ps = <<>> THEN cache
    ELSE CachePathRegions(doc, dests, Tail(ps),
            PutSet(cache, Attr(doc, Head(ps), "id"),
                   RefRegion(doc, dests, Head(ps), "startRef")
                   \cup RefRegion(doc, dests, Head(ps), "endRef")))

Texts(doc, els) == {doc[els[i]].text : i \in 1..Len(els)}

\* the truthy texts of the language children of a guide's languages element
Languages(doc, langs_node) ==
    {l \in Texts(doc, _findall(doc, langs_node, "language")) : Truthy(l)}

RECURSIVE CacheGuideLangs(_, _, _)
CacheGuideLangs(doc, gs, cache) ==
    IF gs = <<>> THEN cache
    ELSE CacheGuideLangs(doc, Tail(gs),
            PutSet(cache, Attr(doc, Head(gs), "id"),
                   Languages(doc, _find(doc, Head(gs), Tag("languages")))))

\* the bindings and the caches built from the sections tp, ps, ds and gs
Bound(doc, tp, ps, ds, gs) ==
    [root |-> doc,
     bikes |-> find_section(doc, "bikes"),
     bookings |-> find_section(doc, "bookings"),
     guides |-> gs,
     paths |-> ps,
     destinations |-> ds,
     clients |-> find_section(doc, "clients"),
     maintenances |-> find_section(doc, "maintenances"),
     tour_packages |-> tp,
     trip_groups |-> find_section(doc, "tripGroups"),
     package_path_cache |->
         CachePackages(doc, _findall(doc, tp, "tourPackage"), "includedPathRef", EmptyDict),
     package_guide_cache |->
         CachePackages(doc, _findall(doc, tp, "tourPackage"), "assignedGuideRef", EmptyDict),
     path_region_cache |->
         IF ps # NoElement /\ ds # NoElement
         THEN CachePathRegions(doc, ds, _findall(doc, ps, "path"), EmptyDict)
         ELSE EmptyDict,
     guide_langs_cache |-> CacheGuideLangs(doc, _findall(doc, gs, "guide"), EmptyDict)]

\* CyclingStats(xml_path): the section bindings and the four caches
Load(doc) ==
    Bound(doc, find_section(doc, "tourPackages"), find_section(doc, "paths"),
          find_section(doc, "destinations"), find_section(doc, "guides"))

\* the loaded model, as the methods see it
Self ==
    [root |-> root, bikes |-> bikes, bookings |-> bookings, guides |-> guides,
     paths |-> paths, destinations |-> destinations, clients |-> clients,
     maintenances |-> maintenances, tour_packages |-> tour_packages,
     trip_groups |-> trip_groups,
     package_path_cache |-> package_path_cache,
     package_guide_cache |-> package_guide_cache,
     path_region_cache |-> path_region_cache,
     guide_langs_cache |-> guide_langs_cache]

\* the elements a loop "if section is not None: for x in _findall(section, tag)" visits
Visited(self, section, tag) ==
    IF section # NoElement THEN _findall(self.root, section, tag) ELSE <<>>

---------------------------------------------------------------------------
(* Monthly Bike Statistics *)

BikeStats ==
    [total_hours |-> 0, rental_hours |-> 0, maintenance_hours |-> 0,
     total_revenue |-> 0, booking_count |-> 0, maintenance_cost |-> 0]

MonthStart(year, month) == datetime(year, month, 1, 0)
MonthEnd(year, month) ==
    IF month = 12 THEN datetime(year + 1, 1, 1, 0) ELSE datetime(year, month + 1, 1, 0)

\* start <= md < end
InWindow(start, md, end) == start <= md /\ md < end

\* what one <maintenance date="..." duration="..." cost="..."/> adds to st
AddInline(st, d, dur, cost, start, end) ==
    IF ~Truthy(d) \/ ~IsIso(d) THEN st
    ELSE IF ~InWindow(start, fromisoformat(d), end) THEN st
    ELSE IF dur # None /\ ~IsNum(dur) THEN st
    ELSE IF cost # None /\ ~IsNum(cost)
         THEN [st EXCEPT !.maintenance_hours = @ + (IF dur = None THEN 0 ELSE float(dur))]
    ELSE [st EXCEPT !.maintenance_hours = @ + (IF dur = None THEN 0 ELSE float(dur)),
                    !.maintenance_cost = @ + (IF cost = None THEN 0 ELSE Decimal(cost))]

\* 1) <maintenance date="..." duration="..." cost="..."/>
RECURSIVE InlineMaintenance(_, _, _, _, _)
InlineMaintenance(doc, ms, start, end, st) ==
    IF ms = <<>> THEN st
    ELSE InlineMaintenance(doc, Tail(ms), start, end,
            AddInline(st, Attr(doc, Head(ms), "date"), Attr(doc, Head(ms), "duration"),
                      Attr(doc, Head(ms), "cost"), start, end))

\* what one <record> adds to st
AddRecord(st, d, dur, cost, start, end) ==
    IF ~Truthy(d) \/ ~IsIso(d) THEN st
    ELSE IF ~InWindow(start, fromisoformat(d), end) THEN st
    ELSE IF dur # None /\ ~IsNum(dur) THEN st
    ELSE IF Truthy(cost) /\ ~IsNum(cost)
         THEN [st EXCEPT !.maintenance_hours = @ + (IF dur # None THEN float(dur) ELSE 24)]
    ELSE [st EXCEPT !.maintenance_hours = @ + (IF dur # None THEN float(dur) ELSE 24),
                    !.maintenance_cost = @ + (IF Truthy(cost) THEN Decimal(cost) ELSE 0)]

\* 2) <record><date>...</date><duration>...</duration><cost>...</cost></record>
RECURSIVE RecordMaintenance(_, _, _, _, _)
RecordMaintenance(doc, recs, start, end, st) ==
    IF recs = <<>> THEN st
    ELSE RecordMaintenance(doc, Tail(recs), start, end,
            AddRecord(st, _find_text(doc, Head(recs), "date"),
                      _find_text(doc, Head(recs), "duration"),
                      _find_text(doc, Head(recs), "cost"), start, end))

\* the bike loop creating an entry only for a bike that has a maintenance
\* element or record
RECURSIVE BikeLoop_OnlyMaintained(_, _, _, _, _)
BikeLoop_OnlyMaintained(doc, bs, start, end, stats) ==
    IF bs = <<>> THEN stats
    ELSE LET bike == Head(bs)
             bid == Attr(doc, bike, "id")
             ms == _findall(doc, bike, "maintenance")
             recs == _findall(doc, bike, "record")
             st1 == InlineMaintenance(doc, ms, start, end, BikeStats)
             st2 == RecordMaintenance(doc, recs, start, end, st1)
         IN BikeLoop_OnlyMaintained(doc, Tail(bs), start, end,
                IF Truthy(bid) /\ (ms # <<>> \/ recs # <<>>)
                THEN Put(stats, bid, st2) ELSE stats)

\* stats[bid] = st for a bike that has an id
BikeEntry(stats, bid, st) == IF Truthy(bid) THEN Put(stats, bid, st) ELSE stats

RECURSIVE BikeLoop(_, _, _, _, _)
BikeLoop(doc, bs, start, end, stats) ==
    IF bs = <<>> THEN stats
    ELSE BikeLoop(doc, Tail(bs), start, end,
            BikeEntry(stats, Attr(doc, Head(bs), "id"),
                RecordMaintenance(doc, _findall(doc, Head(bs), "record"), start, end,
                    InlineMaintenance(doc, _findall(doc, Head(bs), "maintenance"),
                                      start, end, BikeStats))))

\* the date test with the window closed at both ends
BookingReachesAccumulation_Closed(doc, b, start, end) ==
    LET d == Or(Attr(doc, b, "date"), _find_text(doc, b, "date"))
        begin_ts == _find_text(doc, b, "begin")
        end_ts == _find_text(doc, b, "end")
    IN IF Truthy(d) THEN FALSE
       ELSE /\ Truthy(begin_ts) /\ Truthy(end_ts)
            /\ IsIso(begin_ts) /\ IsIso(end_ts)
            /\ ~(fromisoformat(begin_ts) > end \/ fromisoformat(end_ts) < start)

\* the date test of lines 234-252 on the booking's date, begin and end texts
PassesDateTest(d, begin_ts, end_ts, start, end) ==
    IF Truthy(d) THEN FALSE
    ELSE /\ Truthy(begin_ts) /\ Truthy(end_ts)
         /\ IsIso(begin_ts) /\ IsIso(end_ts)
         /\ ~(fromisoformat(begin_ts) >= end \/ fromisoformat(end_ts) <= start)

\* The booking passes the date test of lines 234-252 and reaches line 253.
\* A booking with a date never does: the accumulation is in the else branch.
BookingReachesAccumulation(doc, b, start, end) ==
    PassesDateTest(Or(Attr(doc, b, "date"), _find_text(doc, b, "date")),
                   _find_text(doc, b, "begin"), _find_text(doc, b, "end"), start, end)

\* float(dur_val) or Decimal(price) raises
Unconvertible(dur_val, price) == (Truthy(dur_val) /\ ~IsNum(dur_val)) \/ ~IsNum(price)

\* the booking's price text of line 273
BookingPriceText(doc, b) ==
    Or(Or(_find_text(doc, b, "totalPrice"), _find_text(doc, b, "price")), "0")

\* Lines 256-273 raise out of monthly_bike_stats: float(dur_val) and
\* Decimal(...) are outside every try block.
BookingRaises(doc, b) ==
    Unconvertible(Or(Attr(doc, b, "duration"), _find_text(doc, b, "duration")),
                  BookingPriceText(doc, b))

\* the hours of lines 256-271: the duration, else end - begin, else 0
DurationHours(dur_val, begin, endb) ==
    IF Truthy(dur_val) THEN float(dur_val)
    ELSE IF Truthy(begin) /\ Truthy(endb) /\ IsIso(begin) /\ IsIso(endb)
         THEN fromisoformat(endb) - fromisoformat(begin)
    ELSE 0

BookingDuration(doc, b) ==
    DurationHours(Or(Attr(doc, b, "duration"), _find_text(doc, b, "duration")),
                  _find_text(doc, b, "begin"), _find_text(doc, b, "end"))

BookingPrice(doc, b) == Decimal(BookingPriceText(doc, b))

\* what one booking of bike bid does to acc = [raised, stats]
CountBooking(acc, bid, reaches, raises, duration, price) ==
    IF ~Truthy(bid) THEN acc
    ELSE IF ~reaches THEN acc
    ELSE IF raises THEN [acc EXCEPT !.raised = TRUE]
    ELSE [acc EXCEPT !.stats =
            Put(acc.stats, bid,
                [Get(acc.stats, bid, BikeStats) EXCEPT
                    !.rental_hours = @ + duration,
                    !.total_revenue = @ + price,
                    !.booking_count = @ + 1])]

\* acc = [raised, stats]
RECURSIVE BookingLoop(_, _, _, _, _)
BookingLoop(doc, bs, start, end, acc) ==
    IF bs = <<>> \/ acc.raised THEN acc
    ELSE BookingLoop(doc, Tail(bs), start, end,
            CountBooking(acc, Or(Attr(doc, Head(bs), "bikeId"),
                                 _find_text(doc, Head(bs), "bikeRef")),
                         BookingReachesAccumulation(doc, Head(bs), start, end),
                         BookingRaises(doc, Head(bs)),
                         BookingDuration(doc, Head(bs)),
                         BookingPrice(doc, Head(bs))))

TotalHours(stats) ==
    [bid \in DOMAIN stats |->
        [stats[bid] EXCEPT !.total_hours =
            stats[bid].rental_hours + stats[bid].maintenance_hours]]

\* what monthly_bike_stats returns after its loops: [raised |-> an exception
\* left the call, stats |-> the dict returned]
MonthlyResult(after) ==
    IF after.raised THEN [raised |-> TRUE, stats |-> EmptyDict]
    ELSE [raised |-> FALSE, stats |-> TotalHours(after.stats)]

\* monthly_bike_stats with bs the booking elements its second loop visits
MonthlyBikeStatsOver(self, bs, year, month) ==
    IF self.bikes = NoElement THEN [raised |-> FALSE, stats |-> EmptyDict]
    ELSE MonthlyResult(
            BookingLoop(self.root, bs, MonthStart(year, month), MonthEnd(year, month),
                [raised |-> FALSE,
                 stats |-> BikeLoop(self.root, _findall(self.root, self.bikes, "bike"),
                                    MonthStart(year, month), MonthEnd(year, month),
                                    EmptyDict)]))

monthly_bike_stats(self, year, month) ==
    MonthlyBikeStatsOver(self, Visited(self, self.bookings, "booking"), year, month)

---------------------------------------------------------------------------
(* Fleet Occupancy Rate *)

\* the booking's end timestamp text of line 291
BookingEndText(doc, b) ==
    Or(Or(Or(_find_text(doc, b, "end"), Attr(doc, b, "end")),
          _find_text(doc, b, "date")), Attr(doc, b, "date"))

\* latest parseable booking end; NoLatest when there is none
NoLatest == [some |-> FALSE, at |-> 0]

\* latest, or the end end_ts when it parses and is later
LaterEnd(latest, end_ts) ==
    IF ~Truthy(end_ts) \/ ~IsIso(end_ts) THEN latest
    ELSE IF ~latest.some \/ fromisoformat(end_ts) > latest.at
         THEN [some |-> TRUE, at |-> fromisoformat(end_ts)]
    ELSE latest

RECURSIVE LatestBookingEnd(_, _, _)
LatestBookingEnd(doc, bs, latest) ==
    IF bs = <<>> THEN latest
    ELSE LatestBookingEnd(doc, Tail(bs), LaterEnd(latest, BookingEndText(doc, Head(bs))))

\* the window always ending at datetime.now()
OccupancyWindowEnd_Now(self, clock) == clock

\* latest booking end, else the currentDate cd, else datetime.now()
WindowEnd(latest, cd, clock) ==
    IF latest.some THEN latest.at
    ELSE IF Truthy(cd) /\ IsIso(cd) THEN fromisoformat(cd)
    ELSE clock

\* the end of the analysis window: latest booking end, else the root's
\* currentDate, else datetime.now()
OccupancyWindowEnd(self, clock) ==
    WindowEnd(LatestBookingEnd(self.root, Visited(self, self.bookings, "booking"), NoLatest),
              Attr(self.root, 1, "currentDate"), clock)

\* the hours of one <maintenance> element of a bike
InlineHours(d, dur, start, end) ==
    IF ~Truthy(d) \/ ~IsIso(d) THEN 0
    ELSE IF ~InWindow(start, fromisoformat(d), end) THEN 0
    ELSE IF dur = None THEN 24
    ELSE IF IsNum(dur) THEN float(dur)
    ELSE 0

\* hours added to maint[bid] by the bike's own <maintenance> elements
RECURSIVE BikeMaintenanceHours(_, _, _, _)
BikeMaintenanceHours(doc, ms, start, end) ==
    IF ms = <<>> THEN 0
    ELSE InlineHours(Attr(doc, Head(ms), "date"), Attr(doc, Head(ms), "duration"), start, end)
         + BikeMaintenanceHours(doc, Tail(ms), start, end)

\* occupancy[bid] = 0.0 and maint[bid] += hrs for a bike that has an id
OccupancyEntry(acc, bid, hrs) ==
    IF ~Truthy(bid) THEN acc
    ELSE [ids |-> acc.ids \cup {bid},
          maint |-> Put(acc.maint, bid, Get(acc.maint, bid, 0) + hrs)]

\* acc = [occupancy (the ids in it), maint]
RECURSIVE OccupancyBikeLoop(_, _, _, _, _)
OccupancyBikeLoop(doc, bs, start, end, acc) ==
    IF bs = <<>> THEN acc
    ELSE OccupancyBikeLoop(doc, Tail(bs), start, end,
            OccupancyEntry(acc, Attr(doc, Head(bs), "id"),
                BikeMaintenanceHours(doc, _findall(doc, Head(bs), "maintenance"),
                                     start, end)))

\* maint[bike_ref] += float(hrs)
AddMaintenance(maint, bike_ref, hrs) ==
    IF ~Truthy(bike_ref) THEN maint
    ELSE IF hrs = None \/ ~IsNum(hrs) THEN maint
    ELSE Put(maint, bike_ref, Get(maint, bike_ref, 0) + float(hrs))

\* the hours text of a top-level maintenance entry
MaintenanceHoursText(doc, m) ==
    Or(Or(Or(_find_text(doc, m, "hours"), Attr(doc, m, "hours")),
          _find_text(doc, m, "duration")), Attr(doc, m, "duration"))

\* top-level maintenance entries that reference bikes
RECURSIVE TopLevelMaintenance(_, _, _)
TopLevelMaintenance(doc, ms, maint) ==
    IF ms = <<>> THEN maint
    ELSE TopLevelMaintenance(doc, Tail(ms),
            AddMaintenance(maint,
                           Or(_find_text(doc, Head(ms), "bikeRef"),
                              Attr(doc, Head(ms), "bikeRef")),
                           MaintenanceHoursText(doc, Head(ms))))

\* the hours of [bd, ed] inside [start, end]
Clipped(bd, ed, start, end) == Min(ed, end) - Max(bd, start)

\* used[bid] += the booked hours inside the window
AddUsed(used, ids, bid, begin, endb, start, end) ==
    IF ~Truthy(bid) \/ bid \notin ids THEN used
    ELSE IF ~(Truthy(begin) /\ Truthy(endb)) THEN used
    ELSE IF ~IsIso(begin) \/ ~IsIso(endb) THEN used
    ELSE IF fromisoformat(begin) < end /\ fromisoformat(endb) > start
         THEN Put(used, bid, Get(used, bid, 0)
                             + Clipped(fromisoformat(begin), fromisoformat(endb), start, end))
    ELSE used

\* used[bid]: booked hours clipped to the window
RECURSIVE UsedHours(_, _, _, _, _, _)
UsedHours(doc, bs, ids, start, end, used) ==
    IF bs = <<>> THEN used
    ELSE UsedHours(doc, Tail(bs), ids, start, end,
            AddUsed(used, ids,
                    Or(Attr(doc, Head(bs), "bikeId"), _find_text(doc, Head(bs), "bikeRef")),
                    _find_text(doc, Head(bs), "begin"), _find_text(doc, Head(bs), "end"),
                    start, end))

\* the rate guarded against avail = 0 only
OccupancyRate_NonZero(used, avail) ==
    IF avail # 0 THEN FracMin(Frac(100, 1), Frac(used * 100, avail)) ELSE Zero

\* min(100.0, (used / avail) * 100) if avail > 0 else 0.0
OccupancyRate(used, avail) ==
    IF avail > 0 THEN FracMin(Frac(100, 1), Frac(used * 100, avail)) ELSE Zero

\* the rates of the bikes ids from their used and maintenance hours
Rates(ids, maint, used, total_hours) ==
    [bid \in ids |-> OccupancyRate(Get(used, bid, 0), total_hours - Get(maint, bid, 0))]

\* the rates once the bike loop has left afterBikes = [ids, maint]
RatesAfterBikes(self, afterBikes, start, end, total_hours) ==
    Rates(afterBikes.ids,
          TopLevelMaintenance(self.root, Visited(self, self.maintenances, "maintenance"),
                              afterBikes.maint),
          UsedHours(self.root, Visited(self, self.bookings, "booking"), afterBikes.ids,
                    start, end, EmptyDict),
          total_hours)

\* the rates over the window [start, end]
RatesIn(self, start, end, total_hours) ==
    RatesAfterBikes(self,
        OccupancyBikeLoop(self.root, _findall(self.root, self.bikes, "bike"), start, end,
                          [ids |-> {}, maint |-> EmptyDict]),
        start, end, total_hours)

\* the rates over the period_days before end
RatesBefore(self, end, period_days) ==
    RatesIn(self, end - timedelta(period_days), end, period_days * 24)

calculate_occupancy_rates(self, period_days, clock) ==
    IF self.bikes = NoElement THEN EmptyDict
    ELSE RatesBefore(self, OccupancyWindowEnd(self, clock), period_days)

---------------------------------------------------------------------------
(* Guide Performance *)

GuideStats(langs) ==
    [total_tours |-> 0, total_participants |-> 0, languages |-> langs,
     regions |-> {}, revenue_generated |-> 0]

\* stats[gid] = GuideStats(languages=...) for a guide that has an id
GuideEntry(stats, gid, langs_cache) ==
    IF Truthy(gid) THEN Put(stats, gid, GuideStats(Get(langs_cache, gid, {}))) ELSE stats

RECURSIVE InitGuides(_, _, _, _)
InitGuides(doc, gs, langs_cache, stats) ==
    IF gs = <<>> THEN stats
    ELSE InitGuides(doc, Tail(gs), langs_cache,
            GuideEntry(stats, Attr(doc, Head(gs), "id"), langs_cache))

\* self._find(self.tour_packages, f"tourPackage[@id='{package_id}']")
LivePackage(self, package_id) ==
    _find(self.root, self.tour_packages, TagId("tourPackage", package_id))

\* cache.get(package_id) or the live lookup on the package element
CachedOrLive(self, cache, package_id, field) ==
    Or(Get(cache, package_id, None),
       _find_text(self.root, LivePackage(self, package_id), field))

\* the price always per participant
ParticipantMultiplier_PerParticipant(self, participant_count) == participant_count

\* price is per participant when the document has no clients section
ParticipantMultiplier(self, participant_count) ==
    IF self.clients = NoElement THEN participant_count ELSE 1

\* Decimal(price_str) * multiplier, 0 when the price does not convert
Revenue(price_str, multiplier) ==
    IF Truthy(price_str) /\ IsNum(price_str) THEN Decimal(price_str) * multiplier ELSE 0

\* what one trip group adds to revenue_generated
GroupRevenue(self, package, participant_count) ==
    Revenue(IF package # NoElement THEN _find_text(self.root, package, "price") ELSE None,
            ParticipantMultiplier(self, participant_count))

\* what a trip group of guide guide_id adds to stats
CountTour(self, stats, guide_id, path_id, package, participant_count) ==
    IF ~Truthy(guide_id) \/ guide_id \notin DOMAIN stats THEN stats
    ELSE Put(stats, guide_id,
             [stats[guide_id] EXCEPT
                !.regions = @ \cup (IF Truthy(path_id)
                                    THEN Get(self.path_region_cache, path_id, {})
                                    ELSE {}),
                !.revenue_generated = @ + GroupRevenue(self, package, participant_count),
                !.total_tours = @ + 1,
                !.total_participants = @ + participant_count])

\* the trip group counted also when it starts exactly at end_date
GuideGroup_Closed(self, group, date_str, package_id, start_date, end_date, stats) ==
    IF ~Truthy(date_str) \/ ~IsIso(date_str) THEN stats
    ELSE IF ~(start_date <= fromisoformat(date_str) /\ fromisoformat(date_str) <= end_date)
         THEN stats
    ELSE IF ~Truthy(package_id) THEN stats
    ELSE CountTour(self, stats,
                   CachedOrLive(self, self.package_guide_cache, package_id,
                                "assignedGuideRef"),
                   CachedOrLive(self, self.package_path_cache, package_id,
                                "includedPathRef"),
                   LivePackage(self, package_id),
                   Len(_findall(self.root, group, "participant")))

\* what one trip group adds to stats
GuideGroup(self, group, date_str, package_id, start_date, end_date, stats) ==
    IF ~Truthy(date_str) \/ ~IsIso(date_str) THEN stats
    ELSE IF ~InWindow(start_date, fromisoformat(date_str), end_date) THEN stats
    ELSE IF ~Truthy(package_id) THEN stats
    ELSE CountTour(self, stats,
                   CachedOrLive(self, self.package_guide_cache, package_id,
                                "assignedGuideRef"),
                   CachedOrLive(self, self.package_path_cache, package_id,
                                "includedPathRef"),
                   LivePackage(self, package_id),
                   Len(_findall(self.root, group, "participant")))

RECURSIVE GuideGroupLoop(_, _, _, _, _)
GuideGroupLoop(self, groups, start_date, end_date, stats) ==
    IF groups = <<>> THEN stats
    ELSE GuideGroupLoop(self, Tail(groups), start_date, end_date,
            GuideGroup(self, Head(groups),
                       _find_text(self.root, Head(groups), "startDate"),
                       _find_text(self.root, Head(groups), "packageRef"),
                       start_date, end_date, stats))

\* the trip groups guide_performance and path_analytics visit
VisitedGroups(self) ==
    IF self.trip_groups # NoElement /\ self.tour_packages # NoElement
    THEN _findall(self.root, self.trip_groups, "tripGroup")
    ELSE <<>>

\* guide_performance with groups the trip groups its loop visits
GuidePerformanceOver(self, groups, start_date, end_date) ==
    IF self.guides = NoElement THEN EmptyDict
    ELSE GuideGroupLoop(self, groups, start_date, end_date,
            InitGuides(self.root, _findall(self.root, self.guides, "guide"),
                       self.guide_langs_cache, EmptyDict))

guide_performance(self, start_date, end_date) ==
    GuidePerformanceOver(self, VisitedGroups(self), start_date, end_date)

---------------------------------------------------------------------------
(* Path Analytics *)

PathStats(regions) ==
    [total_trips |-> 0, total_participants |-> 0, revenue_generated |-> 0,
     avg_satisfaction |-> Zero, completion_rate |-> Zero,
     popular_periods |-> EmptyDict, regions |-> regions]

\* stats[pid] = PathStats(regions=...) for a path that has an id
PathEntry(stats, pid, region_cache) ==
    IF Truthy(pid) THEN Put(stats, pid, PathStats(Get(region_cache, pid, {}))) ELSE stats

RECURSIVE InitPaths(_, _, _, _)
InitPaths(doc, ps, region_cache, stats) ==
    IF ps = <<>> THEN stats
    ELSE InitPaths(doc, Tail(ps), region_cache,
            PathEntry(stats, Attr(doc, Head(ps), "id"), region_cache))

\* trip_date.strftime('%Y-%m'), as the pair <<year, month>>
YearMonth(t) ==
    CHOOSE ym \in (2024..2025) \X (1..12) :
        InWindow(MonthStart(ym[1], ym[2]), t, MonthEnd(ym[1], ym[2]))

\* a rating text added to [sum, count] when it converts
AddRating(rest, text) ==
    IF Truthy(text) /\ IsNum(text)
    THEN [sum |-> rest.sum + float(text), count |-> rest.count + 1]
    ELSE rest

\* the numeric ratings of a group: [sum, count]
RECURSIVE GroupRatings(_, _)
GroupRatings(doc, rs) ==
    IF rs = <<>> THEN [sum |-> 0, count |-> 0]
    ELSE AddRating(GroupRatings(doc, Tail(rs)), doc[Head(rs)].text)

\* what a trip on path path_id adds to acc
CountPath(acc, path_id, period_key, participant_count, revenue, ratings, status) ==
    IF ~Truthy(path_id) \/ path_id \notin DOMAIN acc.stats THEN acc
    ELSE [stats |->
            Put(acc.stats, path_id,
                [acc.stats[path_id] EXCEPT
                    !.total_trips = @ + 1,
                    !.total_participants = @ + participant_count,
                    !.popular_periods = Put(@, period_key, Get(@, period_key, 0) + 1),
                    !.revenue_generated = @ + revenue]),
          ratings_sum |-> Put(acc.ratings_sum, path_id,
                              Get(acc.ratings_sum, path_id, 0) + ratings.sum),
          ratings_count |-> Put(acc.ratings_count, path_id,
                                Get(acc.ratings_count, path_id, 0) + ratings.count),
          completed_count |->
              IF status = "completed"
              THEN Put(acc.completed_count, path_id,
                       Get(acc.completed_count, path_id, 0) + 1)
              ELSE acc.completed_count]

\* what a trip group of the package element package adds to acc
CountTrip(self, group, period_key, package, participant_count, acc) ==
    IF package = NoElement THEN acc
    ELSE CountPath(acc, _find_text(self.root, package, "includedPathRef"), period_key,
                   participant_count, GroupRevenue(self, package, participant_count),
                   GroupRatings(self.root, _findall(self.root, group, "rating")),
                   _find_text(self.root, group, "status"))

\* what one trip group adds to acc
PathGroup(self, group, date_str, package_id, acc) ==
    IF ~Truthy(date_str) \/ ~IsIso(date_str) THEN acc
    ELSE IF ~Truthy(package_id) THEN acc
    ELSE CountTrip(self, group, YearMonth(fromisoformat(date_str)),
                   LivePackage(self, package_id),
                   Len(_findall(self.root, group, "participant")), acc)

\* acc = [stats, ratings_sum, ratings_count, completed_count]
RECURSIVE PathGroupLoop(_, _, _)
PathGroupLoop(self, groups, acc) ==
    IF groups = <<>> THEN acc
    ELSE PathGroupLoop(self, Tail(groups),
            PathGroup(self, Head(groups),
                      _find_text(self.root, Head(groups), "startDate"),
                      _find_text(self.root, Head(groups), "packageRef"), acc))

\* the completion rate left as a fraction of 1
FinalizePaths_Fraction(acc) ==
    [pid \in DOMAIN acc.stats |->
        LET pstats == acc.stats[pid]
            rc == Get(acc.ratings_count, pid, 0)
        IN [pstats EXCEPT
              !.avg_satisfaction =
                  IF rc > 0 THEN Frac(acc.ratings_sum[pid], rc) ELSE @,
              !.completion_rate =
                  IF pstats.total_trips > 0
                  THEN Frac(Get(acc.completed_count, pid, 0), pstats.total_trips)
                  ELSE @]]

\* the averages and the completion rate of one path
Finalized(pstats, ratings_sum, rc, completed) ==
    [pstats EXCEPT
        !.avg_satisfaction = IF rc > 0 THEN Frac(ratings_sum, rc) ELSE @,
        !.completion_rate =
            IF pstats.total_trips > 0 THEN Frac(completed * 100, pstats.total_trips) ELSE @]

\* finalize averages and completion rates
FinalizePaths(acc) ==
    [pid \in DOMAIN acc.stats |->
        Finalized(acc.stats[pid], Get(acc.ratings_sum, pid, 0),
                  Get(acc.ratings_count, pid, 0), Get(acc.completed_count, pid, 0))]

\* path_analytics with groups the trip groups its loop visits
PathAnalyticsOver(self, groups) ==
    IF self.paths = NoElement THEN EmptyDict
    ELSE FinalizePaths(PathGroupLoop(self, groups,
            [stats |-> InitPaths(self.root, _findall(self.root, self.paths, "path"),
                                 self.path_region_cache, EmptyDict),
             ratings_sum |-> EmptyDict, ratings_count |-> EmptyDict,
             completed_count |-> EmptyDict]))

path_analytics(self, period_months) == PathAnalyticsOver(self, VisitedGroups(self))

---------------------------------------------------------------------------
(* Monthly Aggregation *)

RECURSIVE SumOver(_, _, _)
SumOver(d, keys, field) ==
    IF keys = {} THEN 0
    ELSE LET k == CHOOSE x \in keys : TRUE
         IN d[k][field] + SumOver(d, keys \ {k}, field)

\* the totals with the revenue of the bikes only
Totals_BikeRevenueOnly(bike_stats, path_stats) ==
    [total_revenue |-> SumOver(bike_stats, DOMAIN bike_stats, "total_revenue"),
     total_bookings |-> SumOver(bike_stats, DOMAIN bike_stats, "booking_count"),
     total_maintenance_cost |-> SumOver(bike_stats, DOMAIN bike_stats, "maintenance_cost"),
     bikes_in_service |->
         Cardinality({b \in DOMAIN bike_stats : bike_stats[b].rental_hours > 0}),
     total_tours |-> SumOver(path_stats, DOMAIN path_stats, "total_trips"),
     total_participants |-> SumOver(path_stats, DOMAIN path_stats, "total_participants")]

\* the totals over the bike statistics and the path statistics
Totals(bike_stats, path_stats) ==
    [total_revenue |->
         SumOver(bike_stats, DOMAIN bike_stats, "total_revenue")
         + SumOver(path_stats, DOMAIN path_stats, "revenue_generated"),
     total_bookings |-> SumOver(bike_stats, DOMAIN bike_stats, "booking_count"),
     total_maintenance_cost |-> SumOver(bike_stats, DOMAIN bike_stats, "maintenance_cost"),
     bikes_in_service |->
         Cardinality({b \in DOMAIN bike_stats : bike_stats[b].rental_hours > 0}),
     total_tours |-> SumOver(path_stats, DOMAIN path_stats, "total_trips"),
     total_participants |-> SumOver(path_stats, DOMAIN path_stats, "total_participants")]

\* bike = [raised, stats] as monthly_bike_stats left it
Aggregated(bike, path_stats) ==
    IF bike.raised THEN [raised |-> TRUE, stats |-> EmptyDict]
    ELSE [raised |-> FALSE, stats |-> Totals(bike.stats, path_stats)]

monthly_aggregation(self, year, month) ==
    Aggregated(monthly_bike_stats(self, year, month), path_analytics(self, 1))

---------------------------------------------------------------------------
(* Report Composer *)

\* The ids, regions and languages of the documents, in ascending order of
\* their code points: the order of Python's str.
StrOrder ==
    <<"b1", "b10", "b2", "b9", "en", "fr", "g1", "g2", "north", "pa", "pb", "south">>

\* the keys in descending order
sorted_Descending(keys) ==
    [k \in 1..Cardinality(keys \cap {StrOrder[i] : i \in 1..Len(StrOrder)}) |->
        SelectSeq(StrOrder, LAMBDA s : s \in keys)[
            Cardinality(keys \cap {StrOrder[i] : i \in 1..Len(StrOrder)}) + 1 - k]]

\* sorted(keys) of a set of str
sorted(keys) == SelectSeq(StrOrder, LAMBDA s : s \in keys)

\* int(x) of a float: truncation toward zero
int(x) == IF x >= 0 THEN x \div 1 ELSE 0 - ((0 - x) \div 1)

\* the integer nearest to s / d for d > 0, a tie going to the even one
RoundHalfEven(s, d) ==
    IF 2 * (s % d) > d THEN (s \div d) + 1
    ELSE IF 2 * (s % d) < d THEN s \div d
    ELSE (s \div d) + ((s \div d) % 2)

\* f"{x:.1f}" and f"{x:.2f}": x in units of 10^-digits
Fixed(x, digits) == RoundHalfEven(x.n * (10 ^ digits), x.d)

\* <Bike id=...> of BikeStatistics
BikeStatisticsEntry(bid, b) ==
    [id |-> bid, totalHours |-> int(b.total_hours), rentalHours |-> int(b.rental_hours),
     maintenanceHours |-> int(b.maintenance_hours), Revenue |-> b.total_revenue,
     MaintenanceCost |-> b.maintenance_cost]

\* <Guide id=...> of GuideStatistics
GuideStatisticsEntry(gid, g) ==
    [id |-> gid, count |-> g.total_tours, total_participants |-> g.total_participants,
     Revenue |-> g.revenue_generated, Regions |-> sorted(g.regions),
     Languages |-> sorted(g.languages)]

\* <Path id=...> of PathStatistics
PathStatisticsEntry(pid, p) ==
    [id |-> pid, total_uses |-> p.total_trips, total_participants |-> p.total_participants,
     completion_rate |-> Fixed(p.completion_rate, 1),
     avg_satisfaction |-> Fixed(p.avg_satisfaction, 2)]

\* <Bike id=...> of the legacy Bikes
LegacyBikeEntry(bid, b, rate) ==
    [id |-> bid, TotalHours |-> int(b.total_hours), RentalHours |-> int(b.rental_hours),
     MaintenanceHours |-> int(b.maintenance_hours), Revenue |-> b.total_revenue,
     BookingCount |-> b.booking_count, OccupancyRate |-> Fixed(rate, 2)]

\* <Guide id=...> of the legacy Guides
LegacyGuideEntry(gid, g) ==
    [id |-> gid, TotalTours |-> g.total_tours, TotalParticipants |-> g.total_participants,
     Languages |-> sorted(g.languages), Regions |-> sorted(g.regions)]

\* <Path id=...> of the legacy Paths
LegacyPathEntry(pid, p) ==
    [id |-> pid, totalTrips |-> p.total_trips,
     avgSatisfaction |-> Fixed(p.avg_satisfaction, 2),
     RevenueGenerated |-> p.revenue_generated]

\* the six listings, over the keys of each dict in the order bids, gids, pids
Listings(bids, gids, pids, bike_stats, guide_stats, path_stats, occupancy) ==
    [BikeStatistics |->
        [k \in 1..Len(bids) |-> BikeStatisticsEntry(bids[k], bike_stats[bids[k]])],
     GuideStatistics |->
        [k \in 1..Len(gids) |-> GuideStatisticsEntry(gids[k], guide_stats[gids[k]])],
     PathStatistics |->
        [k \in 1..Len(pids) |-> PathStatisticsEntry(pids[k], path_stats[pids[k]])],
     Bikes |->
        [k \in 1..Len(bids) |->
            LegacyBikeEntry(bids[k], bike_stats[bids[k]], Get(occupancy, bids[k], Zero))],
     Guides |->
        [k \in 1..Len(gids) |-> LegacyGuideEntry(gids[k], guide_stats[gids[k]])],
     Paths |->
        [k \in 1..Len(pids) |-> LegacyPathEntry(pids[k], path_stats[pids[k]])]]

\* the MonthlyReport element
MonthlyReport(year, month, generated, monthly_agg, listings) ==
    [year |-> year, month |-> month, generated |-> generated,
     Summary |-> [TotalRevenue |-> monthly_agg.total_revenue,
                  TotalBookings |-> monthly_agg.total_bookings,
                  TotalMaintenanceCost |-> monthly_agg.total_maintenance_cost],
     listings |-> listings]

\* the report from the results of the five aggregations; bike and agg are
\* [raised, stats] as monthly_bike_stats and monthly_aggregation left them
Composed(year, month, clock, bike, guide_stats, path_stats, occupancy, agg) ==
    IF bike.raised \/ agg.raised THEN [raised |-> TRUE, report |-> None]
    ELSE [raised |-> FALSE,
          report |->
            MonthlyReport(year, month, clock, agg.stats,
                Listings(sorted(DOMAIN bike.stats), sorted(DOMAIN guide_stats),
                         sorted(DOMAIN path_stats), bike.stats, guide_stats, path_stats,
                         occupancy))]

export_monthly_report(self, year, month, clock) ==
    Composed(year, month, clock,
             monthly_bike_stats(self, year, month),
             guide_performance(self, MonthStart(year, month), MonthEnd(year, month)),
             path_analytics(self, 1),
             calculate_occupancy_rates(self, 31, clock),
             monthly_aggregation(self, year, month))

---------------------------------------------------------------------------

(* The documents the model is loaded from *)

MaxBookings == 2
MaxMaint == 2
MaxGroups == 4
MaxClock == 1

RECURSIVE Pick(_, _, _)
Pick(kinds, chosen, i) ==
    IF i > Len(kinds) THEN <<>>
    ELSE (IF i \in chosen THEN <<kinds[i]>> ELSE <<>>) \o Pick(kinds, chosen, i + 1)

\* the sub-sequences of kinds of at most max elements
Choices(kinds, max) ==
    {Pick(kinds, chosen, 1) : chosen \in {c \in SUBSET (1..Len(kinds)) : Cardinality(c) <= max}}

Interval(bike, begin, end, more) ==
    E("booking", [bikeId |-> bike], None, <<T("begin", begin), T("end", end)>> \o more)

BookingKinds ==
    << \* instant bookings: inside and outside March 2024
       E("booking", [bikeId |-> "b1", date |-> "2024-03-10", duration |-> "4"], None,
         <<T("price", "50")>>),
       E("booking", [bikeId |-> "b1"], None,
         <<T("date", "2024-04-05T12:00"), T("duration", "2"), T("price", "30")>>),
       \* interval bookings around the window [2024-03-01, 2024-04-01)
       Interval("b1", "2024-03-10T10:00", "2024-03-10T14:00", <<T("price", "50")>>),
       Interval("b1", "2024-02-29T22:00", "2024-03-01T02:00", <<T("totalPrice", "30")>>),
       Interval("b1", "2024-02-29T22:00", "2024-03-01T00:00", <<T("price", "30")>>),
       Interval("b1", "2024-04-01T00:00", "2024-04-01T03:00", <<T("price", "30")>>),
       Interval("b1", "2024-03-20T09:00", "2024-04-05T12:00",
                <<T("duration", "6"), T("totalPrice", "100"), T("price", "1")>>),
       \* malformed values
       Interval("b1", "2024-03-10T10:00", "2024-03-10T14:00", <<T("duration", "abc")>>),
       Interval("b1", "2024-03-10T10:00", "2024-03-10T14:00", <<T("price", "free")>>),
       Interval("b1", "soon", "2024-03-10T14:00", <<T("price", "50")>>),
       \* a bike that is no bike element, referenced by a bikeRef child
       E("booking", NoAttr, None,
         <<T("bikeRef", "b9"), T("begin", "2024-03-10T10:00"),
           T("end", "2024-03-10T14:00"), T("price", "3")>>) >>

MaintKinds ==
    << E("maintenance", [date |-> "2024-03-10", duration |-> "4", cost |-> "30"], None, <<>>),
       E("maintenance", [date |-> "2024-12-31T20:00", duration |-> "24", cost |-> "5"], None, <<>>),
       E("maintenance", [date |-> "2024-03-10T10:00"], None, <<>>),
       E("maintenance", [date |-> "2024-03-10", duration |-> "abc", cost |-> "30"], None, <<>>),
       E("maintenance", [date |-> "2024-03-10", duration |-> "2", cost |-> "n/a"], None, <<>>),
       E("maintenance", [date |-> "2024-03-10", duration |-> "800"], None, <<>>),
       E("maintenance", [date |-> "2024-03-10", duration |-> "-5"], None, <<>>),
       E("maintenanceRecords", NoAttr, None,
         <<E("record", NoAttr, None, <<T("date", "2024-03-20T09:00"), T("cost", "100")>>)>>),
       E("maintenanceRecords", NoAttr, None,
         <<E("record", NoAttr, None,
             <<T("date", "last week"), T("duration", "3"), T("cost", "5")>>),
           E("record", NoAttr, None,
             <<T("date", "2024-03-20T09:00"), T("duration", "3"), T("cost", "n/a")>>)>>) >>

TopLevelKinds ==
    << <<>>,
       <<E("maintenances", NoAttr, None,
           <<E("maintenance", NoAttr, None, <<T("bikeRef", "b1"), T("hours", "24")>>),
             E("maintenance", [bikeRef |-> "b1", duration |-> "720"], None, <<>>)>>)>>,
       <<E("maintenances", NoAttr, None,
           <<E("maintenance", NoAttr, None,
               <<T("bikeRef", "b1"), T("date", "2024-02-10T08:00"), T("hours", "6")>>),
             E("maintenance", [bikeRef |-> "b2", hours |-> "soon"], None, <<>>),
             E("maintenance", [hours |-> "5"], None, <<>>)>>)>> >>

RootAttrs == {NoAttr, [currentDate |-> "2024-03-20T09:00"], [currentDate |-> "today"]}

\* bike b1 with its maintenance, bike b2 with nothing, a bike without id
BikesSection(maint) ==
    E("bikes", NoAttr, None,
      <<E("bike", [id |-> "b1"], None, maint),
        E("bike", [id |-> "b2"], None, <<>>),
        E("bike", NoAttr, None, <<>>)>>)

BookingDocs ==
    {E("CyclingDB", [currentDate |-> "2024-03-20T09:00"], None,
       <<BikesSection(<<>>), E("bookings", NoAttr, None, bs)>>)
       : bs \in Choices(BookingKinds, MaxBookings)}

MaintDocs ==
    {E("CyclingDB", NoAttr, None, <<BikesSection(ms)>>)
       : ms \in Choices(MaintKinds, MaxMaint)}

OccupancyBookings ==
    { <<>>,
      <<E("bookings", NoAttr, None, <<>>)>>,
      <<E("bookings", NoAttr, None,
          <<Interval("b1", "2024-03-10T10:00", "2024-03-20T09:00", <<>>),
            Interval("b2", "2024-03-10T14:00", "2024-03-10T10:00", <<T("price", "5")>>)>>)>>,
      <<E("bookings", NoAttr, None,
          <<Interval("b1", "2024-03-10T10:00", "whenever", <<>>),
            E("booking", [bikeId |-> "b2", date |-> "tomorrow"], None, <<>>)>>)>>,
      <<E("bookings", NoAttr, None,
          <<Interval("b1", "2024-03-10T10:00", "2024-03-10T14:00", <<>>),
            E("booking", [bikeId |-> "b2", date |-> "2024-12-31T20:00"], None,
              <<T("begin", "2024-03-10T10:00"), T("end", "whenever")>>)>>)>> }

OccupancyDocs ==
    {E("CyclingDB", attrs, None, <<BikesSection(ms)>> \o top \o bs)
       : attrs \in RootAttrs,
         ms \in {<<>>, <<MaintKinds[3]>>},
         top \in {TopLevelKinds[i] : i \in 1..Len(TopLevelKinds)},
         bs \in OccupancyBookings}

GuidesSection ==
    E("guides", NoAttr, None,
      <<E("guide", [id |-> "g1"], None,
          <<E("languages", NoAttr, None, <<T("language", "en"), T("language", "fr")>>)>>),
        E("guide", [id |-> "g2"], None, <<>>),
        E("guide", NoAttr, None, <<>>)>>)

PathsSection ==
    E("paths", NoAttr, None,
      <<E("path", [id |-> "pa"], None, <<T("startRef", "d1"), T("endRef", "d2")>>),
        E("path", [id |-> "pb"], None, <<T("startRef", "d2"), T("endRef", "d7")>>),
        E("path", NoAttr, None, <<>>)>>)

DestinationsSection ==
    E("destinations", NoAttr, None,
      <<E("destination", [id |-> "d1"], None, <<T("region", "north")>>),
        E("destination", [id |-> "d2"], None, <<T("region", "south")>>)>>)

Package(id, path, guide, price) ==
    E("tourPackage", [id |-> id], None,
      <<T("includedPathRef", path), T("assignedGuideRef", guide), T("price", price)>>)

PackagesSection ==
    E("tourPackages", NoAttr, None,
      <<Package("p1", "pa", "g1", "100"),
        Package("p2", "pb", "g2", "abc"),
        Package("p3", "px", "g9", "30")>>)

Participants(names) == [i \in 1..Len(names) |-> T("participant", names[i])]

Group(date, package, more) ==
    E("tripGroup", NoAttr, None, <<T("startDate", date), T("packageRef", package)>> \o more)

GroupKinds ==
    << Group("2024-03-10T10:00", "p1",
             <<E("participants", NoAttr, None, Participants(<<"c1", "c2", "c3">>)),
               T("status", "completed"), T("rating", "4"), T("rating", "5")>>),
       Group("2024-03-20T09:00", "p1",
             Participants(<<"c1", "c2">>) \o <<T("status", "cancelled"), T("rating", "abc")>>),
       Group("2024-04-01T00:00", "p1",
             Participants(<<"c4">>) \o <<T("status", "planned"), T("rating", "3")>>),
       Group("2024-03-31T22:00", "p1", <<>>),
       Group("2024-03-10", "p2",
             Participants(<<"c5">>) \o <<T("status", "Completed")>>),
       Group("2024-03-10T14:00", "p3", Participants(<<"c6">>) \o <<T("status", "completed")>>),
       Group("someday", "p1", Participants(<<"c7">>) \o <<T("status", "completed")>>) >>

ClientsKinds == {<<>>, <<E("clients", NoAttr, None, <<>>)>>}

\* every section of a trip document but the trip groups and the clients
TripSections == <<GuidesSection, PathsSection, DestinationsSection, PackagesSection>>

TripDocs ==
    {E("CyclingDB", NoAttr, None,
       TripSections \o <<E("tripGroups", NoAttr, None, gs)>> \o cs)
       : gs \in Choices(GroupKinds, MaxGroups), cs \in ClientsKinds}

\* two tourPackage elements with the same id and different paths
DuplicatePackageDocs ==
    {E("CyclingDB", NoAttr, None,
       <<GuidesSection, PathsSection, DestinationsSection,
         E("tourPackages", NoAttr, None,
           <<Package("p1", "pa", "g1", "100"), Package("p1", "pb", "g1", "30")>>),
         E("tripGroups", NoAttr, None, gs)>>)
       : gs \in Choices(GroupKinds, 1)}

\* documents with sections missing or nested one level down
SparseDocs ==
    { E("CyclingDB", NoAttr, None, <<>>),
      E("CyclingDB", NoAttr, None,
        <<E("bookings", NoAttr, None, <<BookingKinds[3]>>)>>),
      E("CyclingDB", NoAttr, None,
        <<PackagesSection, E("tripGroups", NoAttr, None, <<GroupKinds[1]>>)>>),
      E("CyclingDB", NoAttr, None, <<GuidesSection, PathsSection, PackagesSection>>),
      E("CyclingDB", NoAttr, None,
        <<GuidesSection, PathsSection, DestinationsSection,
          E("tripGroups", NoAttr, None, <<GroupKinds[1]>>)>>),
      E("CyclingDB", NoAttr, None,
        <<E("data", NoAttr, None,
            <<BikesSection(<<MaintKinds[1]>>),
              E("bookings", NoAttr, None, <<BookingKinds[3]>>)>>)>>) }

\* documents with every section, varying one of them at a time
FullDoc(attrs, ms, top, bs, gs, cs) ==
    E("CyclingDB", attrs, None,
      <<BikesSection(ms)>> \o top \o bs \o TripSections
      \o <<E("tripGroups", NoAttr, None, gs)>> \o cs)

DefaultBookings == <<E("bookings", NoAttr, None, <<BookingKinds[3]>>)>>
DefaultGroups == <<GroupKinds[1]>>

FullDocs ==
    {FullDoc(NoAttr, <<>>, <<>>, <<E("bookings", NoAttr, None, bs)>>, DefaultGroups, <<>>)
       : bs \in Choices(BookingKinds, 1)}
    \cup
    {FullDoc(NoAttr, ms, top, DefaultBookings, DefaultGroups, <<>>)
       : ms \in Choices(MaintKinds, 1), top \in {TopLevelKinds[1], TopLevelKinds[2]}}
    \cup
    {FullDoc(attrs, <<MaintKinds[3]>>, <<>>, bs, DefaultGroups, <<>>)
       : attrs \in RootAttrs, bs \in OccupancyBookings}
    \cup
    {FullDoc(NoAttr, <<>>, <<>>, DefaultBookings, gs, cs)
       : gs \in Choices(GroupKinds, 2), cs \in ClientsKinds}

BothNs(docs) == {WithNs(doc, ns) : doc \in docs, ns \in BOOLEAN}

\* every section, with the entities in descending id order and a bike b10
ReversedDocs ==
    {E("CyclingDB", NoAttr, None,
       <<E("bikes", NoAttr, None,
           <<E("bike", [id |-> "b2"], None, <<>>),
             E("bike", [id |-> "b10"], None, <<>>),
             E("bike", [id |-> "b1"], None, <<>>)>>),
         E("bookings", NoAttr, None, bs),
         E("guides", NoAttr, None,
           <<E("guide", [id |-> "g2"], None,
               <<E("languages", NoAttr, None, <<T("language", "fr"), T("language", "en")>>)>>),
             E("guide", [id |-> "g1"], None, <<>>)>>),
         E("paths", NoAttr, None,
           <<E("path", [id |-> "pb"], None, <<T("startRef", "d2"), T("endRef", "d1")>>),
             E("path", [id |-> "pa"], None, <<T("startRef", "d1")>>)>>),
         DestinationsSection,
         E("tourPackages", NoAttr, None,
           <<Package("p2", "pb", "g2", "30"), Package("p1", "pa", "g1", "100")>>),
         E("tripGroups", NoAttr, None, gs)>>)
       : bs \in Choices(BookingKinds, 1), gs \in Choices(GroupKinds, 1)}

ReportDocuments == BothNs(FullDocs \cup SparseDocs \cup ReversedDocs)

BikeDocuments == BothNs(BookingDocs \cup MaintDocs \cup OccupancyDocs \cup SparseDocs)
TripDocuments == BothNs(TripDocs \cup SparseDocs \cup DuplicatePackageDocs)
Documents == BothNs(FullDocs \cup SparseDocs)

---------------------------------------------------------------------------
(* Small documents of every shape, for the Locator *)

MaxNodes == 4

TreeTags == {"outer", "bikes"}
NodeTexts == <<None, "hello", "hi", "", "c1", "c2", "c3", "c4">>

RECURSIVE Ancestors(_, _)
Ancestors(doc, el) ==
    IF doc[el].parent = NoElement THEN {}
    ELSE {doc[el].parent} \cup Ancestors(doc, doc[el].parent)

\* the documents of exactly n elements: in document order the parent of an
\* element is the element before it or one of that element's ancestors
RECURSIVE Trees(_)
Trees(n) ==
    IF n = 1 THEN {E("CyclingDB", NoAttr, None, <<>>)}
    ELSE UNION {{Append([i \in 1..(n - 1) |->
                            IF i = p \/ i \in Ancestors(t, p)
                            THEN [t[i] EXCEPT !.extent = n] ELSE t[i]],
                        [parent |-> p, extent |-> n, tag |-> tag, ns |-> FALSE,
                         text |-> NodeTexts[n], attrib |-> NoAttr])
                   : p \in {n - 1} \cup Ancestors(t, n - 1), tag \in TreeTags}
                : t \in Trees(n - 1)}

TreeDocuments == BothNs(UNION {Trees(n) : n \in 1..MaxNodes})

\* the same document with the default namespace declared where it was not,
\* and removed where it was
Twin(doc) == [i \in 1..Len(doc) |-> [doc[i] EXCEPT !.ns = ~@]]

---------------------------------------------------------------------------
(* The loaded model and the calls made on it *)

\* the last call: what was called, whether it raised, what it returned, the
\* wall-clock reading it took (0 when it took none), whether it repeats the
\* call before it and whether the clock has moved since that call
NoCall ==
    [op |-> "none", args |-> <<>>, raised |-> FALSE, result |-> None,
     at |-> 0, again |-> FALSE, moved |-> FALSE]

Loaded(doc) ==
    \E self \in {Load(doc)} :
       /\ root = doc
       /\ bikes = self.bikes
       /\ bookings = self.bookings
       /\ guides = self.guides
       /\ paths = self.paths
       /\ destinations = self.destinations
       /\ clients = self.clients
       /\ maintenances = self.maintenances
       /\ tour_packages = self.tour_packages
       /\ trip_groups = self.trip_groups
       /\ package_path_cache = self.package_path_cache
       /\ package_guide_cache = self.package_guide_cache
       /\ path_region_cache = self.path_region_cache
       /\ guide_langs_cache = self.guide_langs_cache

InitFrom(docs) ==
    /\ \E doc \in docs : Loaded(doc)
    /\ now = 0
    /\ last = NoCall

\* datetime.now(): the wall clock, which only moves forward
WallClock(n) == datetime(2024, 3, 15, 0) + n * timedelta(25)

Tick ==
    /\ now < MaxClock
    /\ now' = now + 1
    /\ UNCHANGED <<root, sections, caches, last>>

\* A method of the loaded model returns (or raises); nothing is assigned to self.
Returns(op, args, raised, result, at) ==
    /\ last' = [op |-> op, args |-> args, raised |-> raised, result |-> result,
                at |-> at,
                again |-> (last.op = op /\ last.args = args),
                moved |-> (last.op = op /\ last.args = args /\ last.at # at)]
    /\ UNCHANGED <<root, sections, caches, now>>

Months == {<<2024, 3>>, <<2024, 12>>}

CallMonthlyBikeStats ==
    \E ym \in Months :
        \E r \in {monthly_bike_stats(Self, ym[1], ym[2])} :
           Returns("monthly_bike_stats", ym, r.raised, r.stats, 0)

Periods == {0, 30}

CallOccupancyRates ==
    \E period_days \in Periods :
        Returns("calculate_occupancy_rates", <<period_days>>, FALSE,
                calculate_occupancy_rates(Self, period_days, WallClock(now)), now)

CallGuidePerformance ==
    \E ym \in {<<2024, 3>>} :
        Returns("guide_performance", ym, FALSE,
                guide_performance(Self, MonthStart(ym[1], ym[2]), MonthEnd(ym[1], ym[2])), 0)

CallPathAnalytics ==
    Returns("path_analytics", <<1>>, FALSE, path_analytics(Self, 1), 0)

CallMonthlyAggregation ==
    \E ym \in {<<2024, 3>>} :
        \E r \in {monthly_aggregation(Self, ym[1], ym[2])} :
           Returns("monthly_aggregation", ym, r.raised, r.stats, 0)

CallExportMonthlyReport ==
    \E ym \in Months :
        \E r \in {export_monthly_report(Self, ym[1], ym[2], WallClock(now))} :
           Returns("export_monthly_report", ym, r.raised, r.report, now)

LookupNames == TreeTags \cup {"nope"}

CallFindText ==
    \E element \in 0..Len(root), path \in LookupNames :
        Returns("_find_text", <<element, path>>, FALSE, _find_text(root, element, path), 0)

CallFind ==
    \E element \in 0..Len(root), path \in LookupNames :
        Returns("_find", <<element, path>>, FALSE, _find(root, element, Tag(path)), 0)

CallFindAll ==
    \E element \in 0..Len(root), path \in LookupNames :
        Returns("_findall", <<element, path>>, FALSE, _findall(root, element, path), 0)

\* every aggregation on documents with every section
Init == InitFrom(Documents)

Next ==
    \/ Tick
    \/ CallMonthlyBikeStats
    \/ CallOccupancyRates
    \/ CallGuidePerformance
    \/ CallPathAnalytics
    \/ CallMonthlyAggregation

Spec == Init /\ [][Next]_vars

\* the bike analyses on the documents of bikes, bookings and maintenance
InitBikes == InitFrom(BikeDocuments)

NextBikes ==
    \/ Tick
    \/ CallMonthlyBikeStats
    \/ CallOccupancyRates

SpecBikes == InitBikes /\ [][NextBikes]_vars

\* the trip analyses on the documents of guides, paths, packages and groups
InitTrips == InitFrom(TripDocuments)

NextTrips ==
    \/ CallGuidePerformance
    \/ CallPathAnalytics

SpecTrips == InitTrips /\ [][NextTrips]_vars

\* the Locator on small documents of every shape
InitLocator == InitFrom(TreeDocuments)

NextLocator ==
    \/ CallFindText
    \/ CallFind
    \/ CallFindAll

SpecLocator == InitLocator /\ [][NextLocator]_vars

\* the report on documents with every section
InitReport == InitFrom(ReportDocuments)

NextReport ==
    \/ Tick
    \/ CallExportMonthlyReport

SpecReport == InitReport /\ [][NextReport]_vars




---------------------------------------------------------------------------
(* Tolerant Locator: the properties *)

IsLookup == last.op \in {"_find_text", "_find", "_findall"}

\* C1: a lookup with a bare element name returns the same result on a document
\* that declares the default namespace as on the same document without it,
\* wherever the target sits under the context element, and a section binding
\* made at load time finds the same section in both.
LocatorIgnoresNamespace ==
    /\ last.op = "_find_text"
          => last.result = _find_text(Twin(root), last.args[1], last.args[2])
    /\ last.op = "_find"
          => last.result = _find(Twin(root), last.args[1], Tag(last.args[2]))
    /\ last.op = "_findall"
          => last.result = _findall(Twin(root), last.args[1], last.args[2])
    /\ bikes = find_section(Twin(root), "bikes")

\* no descendant of the context element has the name, in any namespace
NothingNamed(doc, element, path) ==
    \/ element = NoElement
    \/ \A i \in (element + 1)..doc[element].extent : doc[i].tag # path

\* C2: a lookup whose context is None, or whose name matches nothing below
\* the context, does not raise: _find_text and _find return None and
\* _findall returns the empty list.
LookupNeverFails ==
    IsLookup /\ NothingNamed(root, last.args[1], last.args[2]) =>
        /\ ~last.raised
        /\ last.op = "_find_text" => last.result = None
        /\ last.op = "_find" => last.result = NoElement
        /\ last.op = "_findall" => last.result = <<>>

\* _find_text was called on an element that has descendants, none of them
\* with the name asked for
LookedUpNothing ==
    /\ last.op = "_find_text"
    /\ last.args[1] # NoElement
    /\ root[last.args[1]].extent > last.args[1]
    /\ NothingNamed(root, last.args[1], last.args[2])
    /\ last.result = None

---------------------------------------------------------------------------
(* Idempotence *)

\* C3: a call that repeats the call before it, with the same arguments on
\* the same loaded model, returns (or raises) as that call did, also when the
\* wall clock has moved in between; and no step changes the document, a
\* section binding or one of the four reference caches.
Idempotent ==
    [][/\ last'.again => (last'.raised = last.raised /\ last'.result = last.result)
       /\ UNCHANGED <<root, sections, caches>>]_vars

\* calculate_occupancy_rates was repeated after the clock moved, on a document
\* whose window end is the wall clock, and returned an entry for a bike
RepeatedOnWallClock ==
    /\ last.op = "calculate_occupancy_rates"
    /\ last.args = <<30>>
    /\ last.moved
    /\ OccupancyWindowEnd(Self, WallClock(0)) # OccupancyWindowEnd(Self, WallClock(1))
    /\ DOMAIN last.result # {}

---------------------------------------------------------------------------
(* Monthly Bike Statistics: the properties *)

MonthlyReturned == last.op = "monthly_bike_stats" /\ ~last.raised

Remove(seq, k) == SubSeq(seq, 1, k - 1) \o SubSeq(seq, k + 1, Len(seq))

\* the booking elements of the loaded document
BookingsVisited == Visited(Self, bookings, "booking")

BikeOf(b) == Or(Attr(root, b, "bikeId"), _find_text(root, b, "bikeRef"))
DateOf(b) == Or(Attr(root, b, "date"), _find_text(root, b, "date"))
DurationOf(b) == Or(Attr(root, b, "duration"), _find_text(root, b, "duration"))
PriceOf(b) == Or(Or(_find_text(root, b, "totalPrice"), _find_text(root, b, "price")), "0")

\* an instant booking: a bike id and a single date
IsInstant(b) == Truthy(BikeOf(b)) /\ Truthy(DateOf(b)) /\ IsIso(DateOf(b))

\* an interval booking: a bike id, no date, a begin and an end
IsInterval(b) ==
    /\ Truthy(BikeOf(b))
    /\ ~Truthy(DateOf(b))
    /\ Truthy(_find_text(root, b, "begin")) /\ IsIso(_find_text(root, b, "begin"))
    /\ Truthy(_find_text(root, b, "end")) /\ IsIso(_find_text(root, b, "end"))

BeginOf(b) == fromisoformat(_find_text(root, b, "begin"))
EndOf(b) == fromisoformat(_find_text(root, b, "end"))

\* what the k-th booking adds to the entry of its bike: the entry in the
\* result less the entry in the result of the same call without the booking
Added(k, year, month) ==
    LET bs == BookingsVisited
        bid == BikeOf(bs[k])
        with == Get(last.result, bid, BikeStats)
        without ==
            Get(MonthlyBikeStatsOver(Self, Remove(bs, k), year, month).stats, bid, BikeStats)
    IN [hours |-> with.rental_hours - without.rental_hours,
        revenue |-> with.total_revenue - without.total_revenue,
        count |-> with.booking_count - without.booking_count]

AddsNothing == [hours |-> 0, revenue |-> 0, count |-> 0]

\* C4: in a call of monthly_bike_stats that returns, on a document with a
\* bikes section, every instant booking (a bike id and a single date) whose
\* date is in [first of month, first of next month) and whose duration and
\* price are numeric adds its duration to rental_hours, its price to
\* total_revenue and 1 to booking_count of its bike.
InstantBookingsCounted ==
    MonthlyReturned /\ bikes # NoElement =>
        \A k \in 1..Len(BookingsVisited) :
            LET b == BookingsVisited[k]
                start == MonthStart(last.args[1], last.args[2])
                end == MonthEnd(last.args[1], last.args[2])
            IN (/\ IsInstant(b)
                /\ InWindow(start, fromisoformat(DateOf(b)), end)
                /\ (~Truthy(DurationOf(b)) \/ IsNum(DurationOf(b)))
                /\ IsNum(PriceOf(b)))
               => Added(k, last.args[1], last.args[2]) =
                     [hours |-> IF Truthy(DurationOf(b)) THEN float(DurationOf(b)) ELSE 0,
                      revenue |-> Decimal(PriceOf(b)),
                      count |-> 1]

\* C5: in a call of monthly_bike_stats that returns, on a document with a
\* bikes section, an interval booking (a bike id, no date, a begin and an end
\* that parse) is counted iff begin < window end and end > window start. A
\* counted booking adds 1 to booking_count and, with no explicit duration,
\* exactly end - begin hours to rental_hours, not clipped to the month; a
\* booking that is not counted adds nothing to hours, revenue or count.
IntervalBookingsCounted ==
    MonthlyReturned /\ bikes # NoElement =>
        \A k \in 1..Len(BookingsVisited) :
            LET b == BookingsVisited[k]
                start == MonthStart(last.args[1], last.args[2])
                end == MonthEnd(last.args[1], last.args[2])
                added == Added(k, last.args[1], last.args[2])
            IN IsInterval(b) =>
                 IF BeginOf(b) < end /\ EndOf(b) > start
                 THEN /\ added.count = 1
                      /\ (~Truthy(DurationOf(b)) => added.hours = EndOf(b) - BeginOf(b))
                 ELSE added = AddsNothing

\* monthly_bike_stats of March 2024 returned on a document with a booking
\* that begins in February, ends in March and adds all its 4 hours, and a
\* booking that ends when March starts and adds nothing
CountedAcrossMonthStart ==
    /\ MonthlyReturned /\ bikes # NoElement
    /\ last.args = <<2024, 3>>
    /\ \E k \in 1..Len(BookingsVisited) :
          LET b == BookingsVisited[k]
          IN /\ IsInterval(b) /\ ~Truthy(DurationOf(b))
             /\ BeginOf(b) < MonthStart(2024, 3) /\ EndOf(b) > MonthStart(2024, 3)
             /\ Added(k, 2024, 3).hours = 4
             /\ Added(k, 2024, 3).count = 1
    /\ \E k \in 1..Len(BookingsVisited) :
          LET b == BookingsVisited[k]
          IN /\ IsInterval(b)
             /\ EndOf(b) = MonthStart(2024, 3)
             /\ Added(k, 2024, 3) = AddsNothing

\* C7: no aggregation raises, whatever unparseable date or non-numeric
\* duration, price, cost or rating the document carries: the call returns a
\* result.
NeverAborts == ~last.raised

\* the ids of the bike elements of the bikes section
BikeIds == {Attr(root, _findall(root, bikes, "bike")[k], "id")
               : k \in 1..Len(_findall(root, bikes, "bike"))} \ {None, ""}

\* the bike of id bid has a maintenance element or record, or a booking
\* references it
Touched(bid) ==
    \/ \E k \in 1..Len(_findall(root, bikes, "bike")) :
          LET bike == _findall(root, bikes, "bike")[k]
          IN /\ Attr(root, bike, "id") = bid
             /\ \/ _findall(root, bike, "maintenance") # <<>>
                \/ _findall(root, bike, "record") # <<>>
    \/ \E k \in 1..Len(BookingsVisited) : BikeOf(BookingsVisited[k]) = bid

\* C9 as stated: a bike id is a key of the result of monthly_bike_stats only
\* if a maintenance record or a booking touches the bike, and no key is the
\* missing id of a bike element without an id.
OnlyTouchedBikes ==
    MonthlyReturned =>
        \A bid \in DOMAIN last.result : Truthy(bid) /\ Touched(bid)

\* C9: every bike element with an id has an entry in the result of
\* monthly_bike_stats, touched or not; every other key is the bike id of an
\* interval booking that overlaps the window; and no key is the missing id
\* of a bike element without an id.
BikeKeys ==
    MonthlyReturned =>
        /\ BikeIds \subseteq DOMAIN last.result
        /\ \A bid \in DOMAIN last.result :
              /\ Truthy(bid)
              /\ bid \notin BikeIds =>
                    \E k \in 1..Len(BookingsVisited) :
                        LET b == BookingsVisited[k]
                        IN /\ BikeOf(b) = bid
                           /\ IsInterval(b)
                           /\ BeginOf(b) < MonthEnd(last.args[1], last.args[2])
                           /\ EndOf(b) > MonthStart(last.args[1], last.args[2])

\* monthly_bike_stats returned an all-zero entry for a bike that nothing
\* touches, next to the entry of a bike known only from its booking, on a
\* document that also has a bike element without an id
UntouchedBikeListed ==
    /\ MonthlyReturned
    /\ \E bid \in BikeIds :
          ~Touched(bid) /\ bid \in DOMAIN last.result /\ last.result[bid] = BikeStats
    /\ DOMAIN last.result \ BikeIds # {}
    /\ \E k \in 1..Len(_findall(root, bikes, "bike")) :
          Attr(root, _findall(root, bikes, "bike")[k], "id") = None

---------------------------------------------------------------------------
(* Fleet Occupancy Rate: the properties *)

\* the used and maintenance hours of the last call of
\* calculate_occupancy_rates, per bike id
OccupancyHours ==
    LET end == OccupancyWindowEnd(Self, WallClock(last.at))
        start == end - timedelta(last.args[1])
        afterBikes == OccupancyBikeLoop(root, _findall(root, bikes, "bike"), start, end,
                                        [ids |-> {}, maint |-> EmptyDict])
    IN [maint |-> TopLevelMaintenance(root, Visited(Self, maintenances, "maintenance"),
                                      afterBikes.maint),
        used |-> UsedHours(root, Visited(Self, bookings, "booking"), afterBikes.ids,
                           start, end, EmptyDict)]

\* C8: calculate_occupancy_rates does not raise and returns exactly one entry
\* per id of a bike element; a bike with no booked hours and no maintenance
\* hours in the window gets 0.0, and a bike whose available hours
\* (period_days * 24 less its maintenance hours) are zero or negative gets 0.0.
OccupancyTotal ==
    last.op = "calculate_occupancy_rates" =>
        /\ ~last.raised
        /\ DOMAIN last.result = BikeIds
        /\ \A bid \in DOMAIN last.result :
              LET used == Get(OccupancyHours.used, bid, 0)
                  maint == Get(OccupancyHours.maint, bid, 0)
              IN /\ (used = 0 /\ maint = 0) => last.result[bid] = Zero
                 /\ (last.args[1] * 24 - maint <= 0) => last.result[bid] = Zero

\* calculate_occupancy_rates(30) returned an entry for each of the two bikes
\* with an id, 0.0 for the one with booked hours in the window and more
\* maintenance hours than the window has
NoHoursAvailable ==
    /\ last.op = "calculate_occupancy_rates"
    /\ last.args = <<30>>
    /\ Cardinality(DOMAIN last.result) = 2
    /\ \E bid \in DOMAIN last.result :
          /\ Get(OccupancyHours.used, bid, 0) > 0
          /\ 30 * 24 - Get(OccupancyHours.maint, bid, 0) < 0
          /\ last.result[bid] = Zero

---------------------------------------------------------------------------
(* Guide Performance and Path Analytics: the properties *)

\* the trip groups of the loaded document
GroupsVisited == VisitedGroups(Self)

PackageOf(g) == LivePackage(Self, _find_text(root, g, "packageRef"))
PackagePriceOf(g) == _find_text(root, PackageOf(g), "price")
ParticipantsOf(g) == Len(_findall(root, g, "participant"))

\* what the k-th trip group adds to the result of the last call, over all
\* its entries: the result less the result of the same call without the group
GroupAdded(k) ==
    LET without ==
            IF last.op = "guide_performance"
            THEN GuidePerformanceOver(Self, Remove(GroupsVisited, k),
                                      MonthStart(last.args[1], last.args[2]),
                                      MonthEnd(last.args[1], last.args[2]))
            ELSE PathAnalyticsOver(Self, Remove(GroupsVisited, k))
        trips == IF last.op = "guide_performance" THEN "total_tours" ELSE "total_trips"
    IN [count |-> SumOver(last.result, DOMAIN last.result, trips)
                    - SumOver(without, DOMAIN without, trips),
        revenue |-> SumOver(last.result, DOMAIN last.result, "revenue_generated")
                      - SumOver(without, DOMAIN without, "revenue_generated")]

\* C6: in guide_performance and in path_analytics, every counted trip group
\* whose package has the numeric price P and that has n participants adds
\* P * n to revenue when the document has no clients section, and P when it
\* has one, even an empty one; so the mode is one for the whole document.
PricingMode ==
    last.op \in {"guide_performance", "path_analytics"} =>
        \A k \in 1..Len(GroupsVisited) :
            LET g == GroupsVisited[k]
            IN (/\ GroupAdded(k).count = 1
                /\ Truthy(PackagePriceOf(g))
                /\ IsNum(PackagePriceOf(g)))
               => GroupAdded(k).revenue =
                     IF clients = NoElement
                     THEN Decimal(PackagePriceOf(g)) * ParticipantsOf(g)
                     ELSE Decimal(PackagePriceOf(g))

\* path_analytics returned on a document with an empty clients section and
\* a counted trip group of 3 participants on a package of price 100, which
\* adds 100
PricedPerGroup ==
    /\ last.op = "path_analytics"
    /\ clients # NoElement
    /\ root[clients].extent = clients
    /\ \E k \in 1..Len(GroupsVisited) :
          /\ ParticipantsOf(GroupsVisited[k]) = 3
          /\ PackagePriceOf(GroupsVisited[k]) = "100"
          /\ GroupAdded(k) = [count |-> 1, revenue |-> 100]

\* the counted trip groups of path pid in the last call of path_analytics:
\* those without which the path has one trip less
CountedFor(pid) ==
    {k \in 1..Len(GroupsVisited) :
        last.result[pid].total_trips
          - PathAnalyticsOver(Self, Remove(GroupsVisited, k))[pid].total_trips = 1}

CompletedFor(pid) ==
    {k \in CountedFor(pid) : _find_text(root, GroupsVisited[k], "status") = "completed"}

\* C10: for every path in the result of path_analytics, total_trips is the
\* number of its counted trip groups and completion_rate is the number of
\* those whose status is exactly "completed", divided by total_trips, times
\* 100; it is 0 when total_trips is 0, and always between 0 and 100.
CompletionRate ==
    last.op = "path_analytics" =>
        \A pid \in DOMAIN last.result :
            LET r == last.result[pid]
            IN /\ r.total_trips = Cardinality(CountedFor(pid))
               /\ r.completion_rate =
                     IF r.total_trips = 0 THEN Zero
                     ELSE Frac(Cardinality(CompletedFor(pid)) * 100, r.total_trips)
               /\ FracLeq(Zero, r.completion_rate)
               /\ FracLeq(r.completion_rate, Frac(100, 1))

\* path_analytics returned a path with 4 trips, 1 of them completed, and a
\* completion rate of 25
OneOfFourCompleted ==
    /\ last.op = "path_analytics"
    /\ \E pid \in DOMAIN last.result :
          /\ last.result[pid].total_trips = 4
          /\ Cardinality(CompletedFor(pid)) = 1
          /\ last.result[pid].completion_rate = Frac(25, 1)

---------------------------------------------------------------------------
(* Report Composer: the properties *)

ReportProduced == last.op = "export_monthly_report" /\ ~last.raised

\* the six entity listings of a report
ListingNames == {"BikeStatistics", "GuideStatistics", "PathStatistics",
                 "Bikes", "Guides", "Paths"}

\* the ids a listing of the report lists, in the order it lists them
IdsListed(report, name) ==
    [k \in 1..Len(report.listings[name]) |-> report.listings[name][k].id]

\* the place of a str in the ascending order of str
Rank(s) == CHOOSE k \in 1..Len(StrOrder) : StrOrder[k] = s

\* strictly ascending: ascending, and no id twice
Ascending(ids) == \A j, k \in 1..Len(ids) : j < k => Rank(ids[j]) < Rank(ids[k])

\* the keys of the dict a listing of the report called with <<year, month>> is made from
KeysListed(name, ym) ==
    IF name \in {"BikeStatistics", "Bikes"}
    THEN DOMAIN monthly_bike_stats(Self, ym[1], ym[2]).stats
    ELSE IF name \in {"GuideStatistics", "Guides"}
    THEN DOMAIN guide_performance(Self, MonthStart(ym[1], ym[2]), MonthEnd(ym[1], ym[2]))
    ELSE DOMAIN path_analytics(Self, 1)

\* every listing lists the keys of its dict, each once, in ascending order
ListingsSorted ==
    ReportProduced =>
        \A name \in ListingNames :
            /\ Ascending(IdsListed(last.result, name))
            /\ {IdsListed(last.result, name)[k] : k \in 1..Len(IdsListed(last.result, name))}
               = KeysListed(name, last.args)

\* a report generated again for the same year and month lists the same ids
\* in the same order
ListingsRepeat ==
    (last'.again /\ ~last.raised /\ ~last'.raised /\ last'.op = "export_monthly_report")
        => \A name \in ListingNames :
              IdsListed(last'.result, name) = IdsListed(last.result, name)

\* C11: in the report of export_monthly_report every entity listing
\* (BikeStatistics, GuideStatistics, PathStatistics, Bikes, Guides, Paths)
\* lists each id once, in ascending id order, and a report generated again
\* from the unmodified model for the same year and month lists the same ids
\* in the same order.
ReportListings == []ListingsSorted /\ [][ListingsRepeat]_vars

\* a report generated twice, the wall clock having moved in between, of a
\* document whose bikes are b2, b10, b1 in that order
ReportRepeated ==
    /\ ReportProduced
    /\ last.again /\ last.moved
    /\ IdsListed(last.result, "BikeStatistics") = <<"b1", "b10", "b2">>
    /\ IdsListed(last.result, "Bikes") = <<"b1", "b10", "b2">>
    /\ IdsListed(last.result, "Guides") = <<"g1", "g2">>
    /\ IdsListed(last.result, "PathStatistics") = <<"pa", "pb">>

---------------------------------------------------------------------------
(* Fleet Occupancy Rate: the window and the maintenance in it *)

OccupancyReturned == last.op = "calculate_occupancy_rates" /\ ~last.raised

\* the window of the last call of calculate_occupancy_rates
WindowEndOfCall == OccupancyWindowEnd(Self, WallClock(last.at))
WindowStartOfCall == WindowEndOfCall - timedelta(last.args[1])

\* the text d is a date outside the window of the last call
OutsideWindow(d) ==
    /\ Truthy(d) /\ IsIso(d)
    /\ ~InWindow(WindowStartOfCall, fromisoformat(d), WindowEndOfCall)

\* the top-level maintenance entries the last call visited
MaintenancesVisited == Visited(Self, maintenances, "maintenance")

\* the date of a top-level maintenance entry, as child or as attribute
MaintenanceDateOf(m) == Or(_find_text(root, m, "date"), Attr(root, m, "date"))

\* what the last call returns when its top-level maintenance loop visits ms
RatesOver(ms) ==
    LET afterBikes == OccupancyBikeLoop(root, _findall(root, bikes, "bike"),
                                        WindowStartOfCall, WindowEndOfCall,
                                        [ids |-> {}, maint |-> EmptyDict])
    IN Rates(afterBikes.ids,
             TopLevelMaintenance(root, ms, afterBikes.maint),
             UsedHours(root, Visited(Self, bookings, "booking"), afterBikes.ids,
                       WindowStartOfCall, WindowEndOfCall, EmptyDict),
             last.args[1] * 24)

\* a <maintenance> element of a bike dated outside the window adds no hours
BikeMaintenanceInWindowOnly ==
    OccupancyReturned =>
        \A b \in 1..Len(_findall(root, bikes, "bike")) :
            \A m \in 1..Len(_findall(root, _findall(root, bikes, "bike")[b], "maintenance")) :
                LET el == _findall(root, _findall(root, bikes, "bike")[b], "maintenance")[m]
                IN OutsideWindow(Attr(root, el, "date")) =>
                      InlineHours(Attr(root, el, "date"), Attr(root, el, "duration"),
                                  WindowStartOfCall, WindowEndOfCall) = 0

\* a top-level maintenance entry dated outside the window changes no rate:
\* the call returns what it returns without the entry
TopLevelMaintenanceInWindowOnly ==
    OccupancyReturned =>
        (/\ RatesOver(MaintenancesVisited) = last.result
         /\ \A k \in 1..Len(MaintenancesVisited) :
               OutsideWindow(MaintenanceDateOf(MaintenancesVisited[k]))
                   => RatesOver(Remove(MaintenancesVisited, k)) = last.result)

\* C12: in calculate_occupancy_rates only maintenance dated inside the window
\* [end - period_days, end) reduces a bike's available hours: a maintenance
\* element of a bike, or a top-level maintenance entry that references the
\* bike, dated outside the window leaves every occupancy rate as it is
\* without it.
MaintenanceInWindowOnly == BikeMaintenanceInWindowOnly /\ TopLevelMaintenanceInWindowOnly

---------------------------------------------------------------------------
(* Guide Performance and Path Analytics: the path of a package *)

\* a falsy text is no id
IdOrNone(s) == IF Truthy(s) THEN s ELSE None

\* the path id guide_performance resolves for the package of trip group g:
\* the package->path cache, else the live lookup
GuidePathOf(g) ==
    IdOrNone(CachedOrLive(Self, package_path_cache, _find_text(root, g, "packageRef"),
                          "includedPathRef"))

\* the path id path_analytics resolves for the package of trip group g: the
\* live lookup on the package element
AnalyticsPathOf(g) == IdOrNone(_find_text(root, PackageOf(g), "includedPathRef"))

\* guide_performance(start, end) gets as far as the path of trip group g
GuideProcesses(g, start, end) ==
    /\ Truthy(_find_text(root, g, "startDate"))
    /\ IsIso(_find_text(root, g, "startDate"))
    /\ InWindow(start, fromisoformat(_find_text(root, g, "startDate")), end)
    /\ Truthy(_find_text(root, g, "packageRef"))
    /\ CachedOrLive(Self, package_guide_cache, _find_text(root, g, "packageRef"),
                    "assignedGuideRef") \in DOMAIN last.result

\* path_analytics gets as far as the path of trip group g
AnalyticsProcesses(g) ==
    /\ Truthy(_find_text(root, g, "startDate"))
    /\ IsIso(_find_text(root, g, "startDate"))
    /\ Truthy(_find_text(root, g, "packageRef"))
    /\ PackageOf(g) # NoElement

\* C13: for every trip group that guide_performance and path_analytics both
\* process, the path id guide_performance resolves for the group's package
\* (cache first, live lookup as fallback) is the path id path_analytics
\* resolves for it, also when several tourPackage elements carry the same id.
SamePathResolved ==
    (last.op = "guide_performance" /\ ~last.raised) =>
        \A k \in 1..Len(GroupsVisited) :
            (/\ GuideProcesses(GroupsVisited[k], MonthStart(last.args[1], last.args[2]),
                               MonthEnd(last.args[1], last.args[2]))
             /\ AnalyticsProcesses(GroupsVisited[k]))
                => GuidePathOf(GroupsVisited[k]) = AnalyticsPathOf(GroupsVisited[k])

---------------------------------------------------------------------------
(* Guide Performance: the tours of a guide *)

GuidesReturned == last.op = "guide_performance" /\ ~last.raised

\* the ids of the guide elements
GuideIds ==
    {Attr(root, _findall(root, guides, "guide")[k], "id")
        : k \in 1..Len(_findall(root, guides, "guide"))} \ {None, ""}

\* every tripGroup element of the document
AllGroups == Visited(Self, trip_groups, "tripGroup")

\* the guide assigned to the package of trip group g, None when the group
\* has no package or the package no guide
AssignedGuideOf(g) ==
    IF ~Truthy(_find_text(root, g, "packageRef")) THEN None
    ELSE IdOrNone(CachedOrLive(Self, package_guide_cache, _find_text(root, g, "packageRef"),
                               "assignedGuideRef"))

\* the startDate of trip group g is a date d with start <= d < end
StartsIn(g, start, end) ==
    /\ Truthy(_find_text(root, g, "startDate"))
    /\ IsIso(_find_text(root, g, "startDate"))
    /\ start <= fromisoformat(_find_text(root, g, "startDate"))
    /\ fromisoformat(_find_text(root, g, "startDate")) < end

\* the trip groups of guide gid that start in [start, end), as places in AllGroups
ToursOf(gid, start, end) ==
    {k \in 1..Len(AllGroups) :
        StartsIn(AllGroups[k], start, end) /\ AssignedGuideOf(AllGroups[k]) = gid}

RECURSIVE ParticipantsIn(_)
ParticipantsIn(ks) ==
    IF ks = {} THEN 0
    ELSE LET k == CHOOSE x \in ks : TRUE
         IN ParticipantsOf(AllGroups[k]) + ParticipantsIn(ks \ {k})

\* the window of the last call of guide_performance
GuideWindowStart == MonthStart(last.args[1], last.args[2])
GuideWindowEnd == MonthEnd(last.args[1], last.args[2])

\* C14: guide_performance(start, end) returns exactly one record per guide
\* element with an id; for each guide, total_tours is the number of trip
\* groups whose startDate d satisfies start <= d < end and whose package's
\* assigned guide is that guide, and total_participants is the sum of their
\* participant counts. So a group dated exactly at end, a group with no
\* package or guide and a group of an unknown guide change no record.
ToursCounted ==
    GuidesReturned =>
        /\ DOMAIN last.result = GuideIds
        /\ \A gid \in GuideIds :
              /\ last.result[gid].total_tours
                    = Cardinality(ToursOf(gid, GuideWindowStart, GuideWindowEnd))
              /\ last.result[gid].total_participants
                    = ParticipantsIn(ToursOf(gid, GuideWindowStart, GuideWindowEnd))

\* guide_performance returned for a document with two trip groups of guide g1
\* in the window, of 3 and 2 participants, a group of g1 dated exactly at
\* end and a group whose package names a guide that is no guide element
TwoToursCounted ==
    /\ GuidesReturned
    /\ Len(AllGroups) = 4
    /\ last.result["g1"].total_tours = 2
    /\ last.result["g1"].total_participants = 5
    /\ \E k \in 1..Len(AllGroups) :
          /\ AssignedGuideOf(AllGroups[k]) = "g1"
          /\ IsIso(_find_text(root, AllGroups[k], "startDate"))
          /\ fromisoformat(_find_text(root, AllGroups[k], "startDate")) = GuideWindowEnd
    /\ \E k \in 1..Len(AllGroups) :
          /\ StartsIn(AllGroups[k], GuideWindowStart, GuideWindowEnd)
          /\ AssignedGuideOf(AllGroups[k]) \notin GuideIds \cup {None}

---------------------------------------------------------------------------
(* Fleet Occupancy Rate: the end of the window *)

\* the end and date texts of booking b, in the order line 291 reads them
EndTextsOf(b) ==
    <<_find_text(root, b, "end"), Attr(root, b, "end"),
      _find_text(root, b, "date"), Attr(root, b, "date")>>

\* the end timestamp of booking b: its first end/date text that parses, as
\* a set of 0 or 1
EndOfBooking(b) ==
    {fromisoformat(EndTextsOf(b)[i]) :
        i \in {j \in 1..4 : /\ IsIso(EndTextsOf(b)[j])
                            /\ \A h \in 1..(j - 1) : ~IsIso(EndTextsOf(b)[h])}}

\* the parseable end timestamps of all bookings
BookingEnds ==
    UNION {EndOfBooking(BookingsVisited[k]) : k \in 1..Len(BookingsVisited)}

Latest(ts) == CHOOSE t \in ts : \A u \in ts : u <= t

\* the window end: the latest parseable booking end, else the root's
\* currentDate when it parses, else the wall clock of the call
ExpectedWindowEnd ==
    IF BookingEnds # {} THEN Latest(BookingEnds)
    ELSE IF IsIso(Attr(root, 1, "currentDate"))
         THEN fromisoformat(Attr(root, 1, "currentDate"))
    ELSE WallClock(last.at)

\* C15: the window end of calculate_occupancy_rates is the latest parseable
\* booking end/date timestamp over all bookings when there is one, else the
\* root's currentDate when it is present and parses, else the wall-clock
\* time of the call; the window starts period_days days before its end: the
\* call returns the rates over that window.
WindowChosen ==
    (OccupancyReturned /\ bikes # NoElement) =>
        /\ WindowEndOfCall = ExpectedWindowEnd
        /\ last.result = RatesIn(Self, ExpectedWindowEnd - 24 * last.args[1],
                                 ExpectedWindowEnd, 24 * last.args[1])

---------------------------------------------------------------------------
(* Monthly Aggregation: the properties *)

AggregationReturned == last.op = "monthly_aggregation" /\ ~last.raised

\* the sum of a field over the records of a dict
RECURSIVE SumOfField(_, _)
SumOfField(d, field) ==
    IF DOMAIN d = {} THEN 0
    ELSE LET k == CHOOSE x \in DOMAIN d : TRUE
         IN d[k][field] + SumOfField([x \in DOMAIN d \ {k} |-> d[x]], field)

\* what monthly_bike_stats and path_analytics return for the last call of
\* monthly_aggregation
BikeStatsOfCall == monthly_bike_stats(Self, last.args[1], last.args[2]).stats
PathStatsOfCall == path_analytics(Self, 1)

\* C16: monthly_aggregation(year, month) is a fold of sums: total_revenue is
\* the sum of total_revenue over monthly_bike_stats(year, month) plus the sum
\* of revenue_generated over path_analytics(1); total_bookings and
\* total_maintenance_cost are the sums of booking_count and maintenance_cost
\* over the bikes; total_tours and total_participants are the sums of
\* total_trips and total_participants over the paths.
AggregationIsFold ==
    AggregationReturned =>
        /\ last.result.total_revenue
              = SumOfField(BikeStatsOfCall, "total_revenue")
                + SumOfField(PathStatsOfCall, "revenue_generated")
        /\ last.result.total_bookings = SumOfField(BikeStatsOfCall, "booking_count")
        /\ last.result.total_maintenance_cost
              = SumOfField(BikeStatsOfCall, "maintenance_cost")
        /\ last.result.total_tours = SumOfField(PathStatsOfCall, "total_trips")
        /\ last.result.total_participants
              = SumOfField(PathStatsOfCall, "total_participants")

\* monthly_aggregation returned totals made of a booking of price 50, a
\* maintenance of cost 30 and a trip of 3 participants at 100 each
AggregatedBikesAndTrips ==
    /\ AggregationReturned
    /\ last.result.total_revenue = 350
    /\ last.result.total_bookings = 1
    /\ last.result.total_maintenance_cost = 30
    /\ last.result.total_tours = 1
    /\ last.result.total_participants = 3
    /\ Cardinality(DOMAIN BikeStatsOfCall) >= 2
    /\ Cardinality(DOMAIN PathStatsOfCall) >= 2

---------------------------------------------------------------------------
(* Occupancy Rate Calculator: the range of the rates *)

\* the rate r is between 0.0 and 100.0 inclusive
InRange(r) == FracLeq(Zero, r) /\ FracLeq(r, Frac(100, 1))

\* C17: every value returned by calculate_occupancy_rates lies between 0.0
\* and 100.0 inclusive, for every document and every period_days >= 0, also
\* for bookings that end before they begin and for maintenance entries with
\* negative hours.
RatesInRange ==
    OccupancyReturned => \A bid \in DOMAIN last.result : InRange(last.result[bid])

=============================================================================
